---- MODULE Spec2Model ----
(***************************************************************************)
(* State-machine model of the roadgraph traffic simulator                  *)
(* (src/roadgraph/simulator): the TrafficLight phase machine, the Vehicle  *)
(* kinematics, the IDM car-following law, Simulation.step and the          *)
(* automatic traffic generation.                                           *)
(*                                                                         *)
(* Numbers are fixed point.  Lengths are in centimetres, speeds in cm/s,   *)
(* accelerations in cm/s^2 and times in ticks of 0.1 s, so that every      *)
(* default of config.py is an integer.  Dimensionless ratios are held in   *)
(* thousandths.  Products with a time are divided by 10 (ticks -> s).      *)
(* Floating-point rounding of the Python source is not represented.        *)
(***************************************************************************)
EXTENDS Integers, Sequences, FiniteSets, TLC

VARIABLES
    graph,              \* RoadNetwork.graph: the nodes and edges with their attributes
    time,               \* Simulation.time
    lights,             \* node id -> TrafficLight state (the node's 'traffic_light')
    veh,                \* vehicle id -> Vehicle object (every vehicle ever constructed)
    vehicles,           \* Simulation.vehicles (list of ids)
    completed_vehicles, \* Simulation.completed_vehicles (list of ids)
    lanes,              \* road -> lane index -> list of ids (road['vehicles'])
    next_vehicle_id,    \* Simulation.next_vehicle_id
    gen,                \* the traffic-generation fields of Simulation
    last,               \* the last call made by the driver and how it returned
    obs,                \* history: what an observer of each light has seen
    phys                \* history: the vehicle-physics phase of the last step

vars == <<graph, time, lights, veh, vehicles, completed_vehicles, lanes,
          next_vehicle_id, gen, last, obs, phys>>

None == -1

Min(a, b) == IF a < b THEN a ELSE b

Max(a, b) == IF a > b THEN a ELSE b

(***************************************************************************)
(* Bounds of the exploration.                                              *)
(***************************************************************************)
MaxSteps == 11

MaxVehicles == 2

LegLength == 3000

MaxLightTime == 200

\* The green_time the light is constructed with (test.py passes its own).
LightDuration == 100

\* The length of the one-way road from node 6 to the centre: a road shorter
\* than STOP_LINE_OFFSET.
ShortLength == 150

\* The number of steps taken with traffic generation configured.
MaxTrafficSteps == 5

\* The end of the one period of the demand pattern, in ticks.
PatternEnd == 40

\* The update time a vehicle driven by hand is taken through, in ticks, and
\* the number of steps taken with it.
MaxDriveTime == 150

MaxDriveSteps == 3

\* The number of periods a demand pattern built by hand is given.
MaxPeriods == 5

\* The number of steps the scenario of test.py is followed for.
MaxScenarioSteps == 15

\* The number of steps during which the driver spawns vehicles and requests
\* phase changes before it only steps, and the number of steps it takes in all.
MaxSetupSteps == 5

MaxProgressSteps == 17

(***************************************************************************)
(* config.py                                                               *)
(***************************************************************************)
NUM_LANES == 2

SPEED_LIMIT == 1500

GREEN_TIME == 300

MIN_GREEN_TIME == 50

YELLOW_TIME == 30

VEHICLE_LENGTH == 500

MAX_SPEED == 4000

DESIRED_SPEED_FACTOR == 1000

MAX_ACCELERATION == 300

MAX_DECELERATION == 500

MIN_GAP == 200

STOP_THRESHOLD == 20

INTERSECTION_DETECTION_DISTANCE == 2000

TIME_STEP == 1

STOP_LINE_OFFSET == 200

MIN_CLEARANCE == 1500

TIME_HEADWAY == 15

DELTA == 4

\* Simulation.dt, in ticks; it is kept with the fields of the simulation in gen.
dt == gen.dt

(***************************************************************************)
(* traffic_light.py                                                        *)
(***************************************************************************)
\* The phases of the light at the centre node (test.py), plus a third,
\* protected phase so that a pending target differs from every other index.
Phases == << {<<1, 5>>, <<3, 5>>}, {<<2, 5>>, <<4, 5>>}, {<<2, 5>>} >>

\* Indices are 0-based as in the source; Phases is a 1-based sequence.
NumPhases == Len(Phases)

\* Phase.is_green
IsGreen(p, a, b) == <<a, b>> \in Phases[p + 1]

\* TrafficLight.__init__
TrafficLightInit ==
    [current_phase_index |-> 0,
     time_in_phase       |-> 0,
     state               |-> "GREEN",
     transitioning       |-> FALSE,
     next_phase_index    |-> None,
     green_time          |-> LightDuration,
     min_green_time      |-> MIN_GREEN_TIME,
     yellow_time         |-> YELLOW_TIME]

\* CommitDue with the yellow time not awaited.
CommitDueAtOnce(tl) == tl.transitioning /\ tl.state = "YELLOW"

\* CommitDue with > for >=.
CommitDueStrict(tl) ==
    tl.transitioning /\ tl.state = "YELLOW" /\ tl.time_in_phase > tl.yellow_time

\* The commit test of TrafficLight.update (lines 58-59).
CommitDue(tl) ==
    /\ tl.transitioning
    /\ tl.state = "YELLOW"
    /\ tl.time_in_phase >= tl.yellow_time

\* Update that leaves time_in_phase running over a commit.
UpdateKeepsTime(tl, d) ==
    LET t1 == [tl EXCEPT !.time_in_phase = @ + d]
    IN  IF CommitDue(t1)
        THEN [t1 EXCEPT !.current_phase_index = t1.next_phase_index,
                        !.state = "GREEN",
                        !.transitioning = FALSE,
                        !.next_phase_index = None]
        ELSE t1

\* Update that starts a transition by itself once green_time has passed.
UpdateAutoCycle(tl, d) ==
    LET t1 == [tl EXCEPT !.time_in_phase = @ + d]
    IN  IF CommitDue(t1)
        THEN [t1 EXCEPT !.current_phase_index = t1.next_phase_index,
                        !.state = "GREEN",
                        !.time_in_phase = 0,
                        !.transitioning = FALSE,
                        !.next_phase_index = None]
        ELSE IF t1.state = "GREEN" /\ t1.time_in_phase >= t1.green_time
        THEN [t1 EXCEPT !.state = "YELLOW",
                        !.transitioning = TRUE,
                        !.next_phase_index = (t1.current_phase_index + 1) % NumPhases,
                        !.time_in_phase = 0]
        ELSE t1

\* Update whose commit leaves the pending target recorded.
UpdateKeepsTarget(tl, d) ==
    LET t1 == [tl EXCEPT !.time_in_phase = @ + d]
    IN  IF CommitDue(t1)
        THEN [t1 EXCEPT !.current_phase_index = t1.next_phase_index,
                        !.state = "GREEN",
                        !.time_in_phase = 0,
                        !.transitioning = FALSE]
        ELSE t1

\* TrafficLight.update
Update(tl, d) ==
    LET t1 == [tl EXCEPT !.time_in_phase = @ + d]
    IN  IF CommitDue(t1)
        THEN [t1 EXCEPT !.current_phase_index = t1.next_phase_index,
                        !.state = "GREEN",
                        !.time_in_phase = 0,
                        !.transitioning = FALSE,
                        !.next_phase_index = None]
        ELSE t1

\* can_change_phase without the minimum green time.
CanChangePhaseNoMinGreen(tl) == ~tl.transitioning /\ tl.state = "GREEN"

\* TrafficLight.can_change_phase
CanChangePhase(tl) ==
    IF tl.transitioning THEN FALSE
    ELSE IF tl.state # "GREEN" THEN FALSE
    ELSE tl.time_in_phase >= tl.min_green_time

\* The validation of TrafficLight.request_phase_change (lines 79-80).
InvalidIndex(i) == i < 0 \/ i >= NumPhases

\* RequestReturn with the index validated after the no-op tests.
RequestReturnValidatesLate(tl, i) ==
    IF i = tl.current_phase_index THEN "False"
    ELSE IF ~CanChangePhase(tl) THEN "False"
    ELSE IF InvalidIndex(i) THEN "ValueError"
    ELSE "True"

\* How request_phase_change(i) returns: it raises, or returns False or True.
RequestReturn(tl, i) ==
    IF InvalidIndex(i) THEN "ValueError"
    ELSE IF i = tl.current_phase_index THEN "False"
    ELSE IF ~CanChangePhase(tl) THEN "False"
    ELSE "True"

\* InitiateTransition without the reset of time_in_phase.
InitiateTransitionKeepsTime(tl, i) ==
    [tl EXCEPT !.state = "YELLOW",
               !.transitioning = TRUE,
               !.next_phase_index = i]

\* The transition request_phase_change(i) initiates (lines 86-89).
InitiateTransition(tl, i) ==
    [tl EXCEPT !.state = "YELLOW",
               !.transitioning = TRUE,
               !.next_phase_index = i,
               !.time_in_phase = 0]

\* TrafficLight.request_phase_change: the light after the call.
RequestPhaseChange(tl, i) ==
    IF RequestReturn(tl, i) = "True" THEN InitiateTransition(tl, i) ELSE tl

\* get_state_for_road with yellow shown to the roads of the current phase only.
GetStateForRoadOwnYellow(tl, a, b) ==
    IF IsGreen(tl.current_phase_index, a, b) THEN tl.state ELSE "RED"

\* TrafficLight.get_state_for_road
GetStateForRoad(tl, a, b) ==
    IF tl.state = "YELLOW" THEN "YELLOW"
    ELSE IF IsGreen(tl.current_phase_index, a, b)
         THEN (IF tl.state = "GREEN" THEN "GREEN" ELSE tl.state)
         ELSE "RED"

(***************************************************************************)
(* road_network.py: the network the simulation is built over.  It is the   *)
(* four-leg intersection of test.py (create_network) with shorter legs;    *)
(* the road from the centre to node 3 is given a single lane.  A sixth     *)
(* node has a short one-way road into the centre and no road leading to    *)
(* it, so that no route reaches it.                                        *)
(***************************************************************************)
Centre == 5

Nodes == {1, 2, 3, 4, Centre, 6}

\* The 'pos' of each node (add_node).
NodePos(n) ==
    CASE n = 1 -> <<LegLength, 0>>
      [] n = 2 -> <<2 * LegLength, LegLength>>
      [] n = 3 -> <<LegLength, 2 * LegLength>>
      [] n = 4 -> <<0, LegLength>>
      [] n = 6 -> <<LegLength + ShortLength, LegLength>>
      [] OTHER -> <<LegLength, LegLength>>

\* The directed edges (add_two_way_road for every leg, add_road for the short one).
Roads == {<<i, Centre>> : i \in 1..4} \cup {<<Centre, i>> : i \in 1..4}
             \cup {<<6, Centre>>}

\* The nodes whose 'traffic_light' is not None.
LightNodes == {Centre}

RECURSIVE SqrtSearch(_, _, _)
\* The largest k in lo..hi with k*k <= n.
SqrtSearch(n, lo, hi) ==
    IF lo >= hi THEN lo
    ELSE LET mid == (lo + hi + 1) \div 2
         IN  IF mid * mid <= n THEN SqrtSearch(n, mid, hi)
                               ELSE SqrtSearch(n, lo, mid - 1)

\* math.sqrt, rounded down to the unit.
Sqrt(n) == SqrtSearch(n, 0, Min(n, 46340))

\* The length add_road computes from the positions of the two nodes (line 31).
Distance(p, q) == Sqrt((q[1] - p[1]) * (q[1] - p[1]) + (q[2] - p[2]) * (q[2] - p[2]))

\* The 'length' of an edge (add_road, lines 29-31).
EdgeLength(a, b) == Distance(NodePos(a), NodePos(b))

\* The 'num_lanes' of an edge.
NumLanes(r) == graph.edges[r].num_lanes

\* The 'speed_limit' of an edge.
SpeedLimit(r) == graph.edges[r].speed_limit

\* The 'length' attribute of every edge, computed once when the edge is added.
RoadLengths == [r \in Roads |-> EdgeLength(r[1], r[2])]

\* RoadNetwork.get_road_length
GetRoadLength(r) == graph.edges[r].length

\* The graph after the construction of the network: the attributes of the
\* nodes and of the edges.  traffic_light is the intersection_id of the
\* light attached, or None.  The 'vehicles' of the edges are the variable lanes.
Network ==
    [nodes |-> [n \in Nodes |->
                   [pos |-> NodePos(n),
                    traffic_light |-> IF n \in LightNodes THEN n ELSE None]],
     edges |-> [r \in Roads |->
                   [length |-> RoadLengths[r],
                    num_lanes |-> IF r = <<Centre, 3>> THEN 1 ELSE NUM_LANES,
                    speed_limit |-> SPEED_LIMIT]]]

\* test.py, lines 5-9: ROAD_LENGTH and the centre in cm, SPAWN_RATE in
\* thousandths of a vehicle per second, LIGHT_DURATION in ticks.
ROAD_LENGTH == 10000

CENTER_X == 10000

CENTER_Y == 10000

SPAWN_RATE == 2000

LIGHT_DURATION == 300

\* The positions create_network of test.py gives the nodes (lines 16-20).
ScenarioPos(n) ==
    CASE n = 1 -> <<CENTER_X, CENTER_Y - ROAD_LENGTH>>
      [] n = 2 -> <<CENTER_X + ROAD_LENGTH, CENTER_Y>>
      [] n = 3 -> <<CENTER_X, CENTER_Y + ROAD_LENGTH>>
      [] n = 4 -> <<CENTER_X - ROAD_LENGTH, CENTER_Y>>
      [] n = 6 -> <<CENTER_X + ShortLength, CENTER_Y>>
      [] OTHER -> <<CENTER_X, CENTER_Y>>

\* The graph create_network of test.py builds: every road of every leg has
\* NUM_LANES lanes.  The sixth node and its short road are kept; the
\* scenario has no spawn point on it and no destination at it.
ScenarioNetwork ==
    [nodes |-> [n \in Nodes |->
                   [pos |-> ScenarioPos(n),
                    traffic_light |-> IF n \in LightNodes THEN n ELSE None]],
     edges |-> [r \in Roads |->
                   [length |-> Distance(ScenarioPos(r[1]), ScenarioPos(r[2])),
                    num_lanes |-> NUM_LANES,
                    speed_limit |-> SPEED_LIMIT]]]

\* RoadNetwork.__init__: the empty graph.
EmptyGraph == [nodes |-> <<>>, edges |-> <<>>]

\* RoadNetwork.add_node: how the call returns.
AddNodeReturn(g, node_id) ==
    IF node_id \in DOMAIN g.nodes THEN "ValueError" ELSE "None"

\* RoadNetwork.add_node: the graph after the call.
AddNode(g, node_id, pos, traffic_light) ==
    IF AddNodeReturn(g, node_id) # "None" THEN g
    ELSE [g EXCEPT !.nodes = [n \in DOMAIN g.nodes \cup {node_id} |->
                                IF n = node_id
                                THEN [pos |-> pos, traffic_light |-> traffic_light]
                                ELSE g.nodes[n]]]

\* AddRoadReturn that rejects negative lengths only.
AddRoadReturnZeroAllowed(g, a, b) ==
    IF a \notin DOMAIN g.nodes \/ b \notin DOMAIN g.nodes THEN "KeyError"
    ELSE IF Distance(g.nodes[a].pos, g.nodes[b].pos) < 0 THEN "ValueError"
    ELSE "None"

\* RoadNetwork.add_road: how the call returns.  graph.nodes[id] raises
\* KeyError for an id that is no node (lines 29-30).
AddRoadReturn(g, a, b) ==
    IF a \notin DOMAIN g.nodes \/ b \notin DOMAIN g.nodes THEN "KeyError"
    ELSE IF Distance(g.nodes[a].pos, g.nodes[b].pos) <= 0 THEN "ValueError"
    ELSE "None"

\* RoadNetwork.add_road with the default lane count and speed limit: the
\* graph after the call.  add_edge replaces the attributes of an edge that
\* exists already.
AddRoad(g, a, b) ==
    IF AddRoadReturn(g, a, b) # "None" THEN g
    ELSE [g EXCEPT !.edges = [r \in DOMAIN g.edges \cup {<<a, b>>} |->
                                IF r = <<a, b>>
                                THEN [length |-> Distance(g.nodes[a].pos, g.nodes[b].pos),
                                      num_lanes |-> NUM_LANES,
                                      speed_limit |-> SPEED_LIMIT]
                                ELSE g.edges[r]]]

\* RoadNetwork.add_two_way_road: how the call returns (the first add_road
\* that raises ends it).
AddTwoWayRoadReturn(g, a, b) ==
    IF AddRoadReturn(g, a, b) # "None" THEN AddRoadReturn(g, a, b)
    ELSE AddRoadReturn(AddRoad(g, a, b), b, a)

\* RoadNetwork.add_two_way_road: the graph after the call.
AddTwoWayRoad(g, a, b) ==
    IF AddRoadReturn(g, a, b) # "None" THEN g
    ELSE AddRoad(AddRoad(g, a, b), b, a)

\* The simple paths of the graph that start with the node sequence p and end in b.
RECURSIVE PathsFrom(_, _)
PathsFrom(p, b) ==
    LET h == p[Len(p)]
    IN  IF h = b THEN {p}
        ELSE UNION { PathsFrom(Append(p, n), b) :
                       n \in {m \in Nodes : <<h, m>> \in Roads
                                            /\ \A k \in 1..Len(p) : p[k] # m} }

RECURSIVE PathLength(_)
PathLength(p) ==
    IF Len(p) < 2 THEN 0
    ELSE GetRoadLength(<<p[1], p[2]>>) + PathLength(Tail(p))

\* Whether nx.shortest_path finds a path (it raises otherwise).
HasRoute(a, b) == a \in Nodes /\ b \in Nodes /\ PathsFrom(<<a>>, b) # {}

\* RoadNetwork.get_shortest_route: the list of edges of a path of least total length.
GetShortestRoute(a, b) ==
    LET ps   == PathsFrom(<<a>>, b)
        best == CHOOSE p \in ps : \A q \in ps : PathLength(p) <= PathLength(q)
    IN  [i \in 1..(Len(best) - 1) |-> <<best[i], best[i + 1]>>]

(***************************************************************************)
(* vehicle.py                                                              *)
(***************************************************************************)
\* Vehicle.__init__ with the default parameters of spawn_vehicle.
NewVehicle(road, lane, route) ==
    [length           |-> VEHICLE_LENGTH,
     max_speed        |-> MAX_SPEED,
     max_acceleration |-> MAX_ACCELERATION,
     max_deceleration |-> MAX_DECELERATION,
     time_headway     |-> TIME_HEADWAY,
     min_gap          |-> MIN_GAP,
     current_road     |-> road,
     current_lane     |-> lane,
     position         |-> 0,
     route            |-> route,
     route_index      |-> 0,
     desired_speed    |-> (SpeedLimit(road) * DESIRED_SPEED_FACTOR) \div 1000,
     speed            |-> 0,
     acceleration     |-> 0,
     previous_speed   |-> 0,
     total_wait_time  |-> 0,
     total_stops      |-> 0,
     time_alive       |-> 0]

(***************************************************************************)
(* vehicle_profile.py                                                      *)
(***************************************************************************)
\* VehicleProfile.get_all_profiles: CAR, AGGRESSIVE, CAUTIOUS.  The
\* desired_speed_factor is the range random.uniform draws from.
Profiles ==
    << [length |-> 500, max_speed |-> 4000, desired_speed_factor |-> <<900, 1000>>,
        max_acceleration |-> 300, max_deceleration |-> 500, time_headway |-> 15],
       [length |-> 500, max_speed |-> 4500, desired_speed_factor |-> <<1100, 1200>>,
        max_acceleration |-> 400, max_deceleration |-> 600, time_headway |-> 8],
       [length |-> 500, max_speed |-> 3500, desired_speed_factor |-> <<800, 900>>,
        max_acceleration |-> 250, max_deceleration |-> 500, time_headway |-> 20] >>

\* Vehicle.__init__ with the parameters _spawn_traffic_vehicle passes on
\* (simulation.py, lines 233-240); min_gap keeps its default.
ProfileVehicle(road, lane, route, profile, factor) ==
    [NewVehicle(road, lane, route) EXCEPT
        !.length           = profile.length,
        !.max_speed        = profile.max_speed,
        !.max_acceleration = profile.max_acceleration,
        !.max_deceleration = profile.max_deceleration,
        !.time_headway     = profile.time_headway,
        !.desired_speed    = (SpeedLimit(road) * factor) \div 1000]

(***************************************************************************)
(* vehicle.py: the methods                                                 *)
(***************************************************************************)
\* Vehicle.update without the clamp of the speed.
VehicleUpdateNoClamp(v, d) ==
    LET s1  == v.speed + (v.acceleration * d) \div 10
        pos == v.position + (s1 * d) \div 10
    IN  [v EXCEPT !.speed = s1,
                  !.position = pos,
                  !.total_wait_time = IF s1 < 100 THEN @ + d ELSE @,
                  !.total_stops = IF v.previous_speed > STOP_THRESHOLD
                                     /\ s1 <= STOP_THRESHOLD THEN @ + 1 ELSE @,
                  !.time_alive = @ + d,
                  !.previous_speed = s1]

\* Vehicle.update
VehicleUpdate(v, d) ==
    LET s1  == v.speed + (v.acceleration * d) \div 10
        s2  == Max(0, Min(s1, v.max_speed))
        pos == v.position + (s2 * d) \div 10
    IN  [v EXCEPT !.speed = s2,
                  !.position = pos,
                  !.total_wait_time = IF s2 < 100 THEN @ + d ELSE @,
                  !.total_stops = IF v.previous_speed > STOP_THRESHOLD
                                     /\ s2 <= STOP_THRESHOLD THEN @ + 1 ELSE @,
                  !.time_alive = @ + d,
                  !.previous_speed = s2]

\* Vehicle.set_acceleration that clamps from above only.
SetAccelerationNoFloor(v, acc) ==
    [v EXCEPT !.acceleration = Min(acc, v.max_acceleration)]

\* Vehicle.set_acceleration
SetAcceleration(v, acc) ==
    [v EXCEPT !.acceleration = Max(0 - v.max_deceleration, Min(acc, v.max_acceleration))]

RECURSIVE SortLane(_, _)
\* list.sort(key = position): stable, ascending.
SortLane(vs, L) ==
    IF Len(L) <= 1 THEN L
    ELSE LET x    == L[Len(L)]
             S    == SortLane(vs, SubSeq(L, 1, Len(L) - 1))
             keep == {k \in 1..Len(S) : vs[S[k]].position <= vs[x].position}
             n    == Cardinality(keep)
         IN  SubSeq(S, 1, n) \o <<x>> \o SubSeq(S, n + 1, Len(S))

\* get_leading_vehicle that goes through the lane as it is, without sorting it.
GetLeadingVehicleUnsorted(vs, ln, id) ==
    LET S     == ln[vs[id].current_road][vs[id].current_lane]
        ahead == {k \in 1..Len(S) : vs[S[k]].position > vs[id].position}
    IN  IF ahead = {} THEN None
        ELSE S[CHOOSE k \in ahead : \A j \in ahead : k <= j]

\* Vehicle.get_leading_vehicle: the value it returns (None when there is none).
GetLeadingVehicle(vs, ln, id) ==
    LET S     == SortLane(vs, ln[vs[id].current_road][vs[id].current_lane])
        ahead == {k \in 1..Len(S) : vs[S[k]].position > vs[id].position}
    IN  IF ahead = {} THEN None
        ELSE S[CHOOSE k \in ahead : \A j \in ahead : k <= j]

\* Vehicle.get_leading_vehicle: the lane collections it leaves (sorted in place).
SortedInPlace(vs, ln, id) ==
    [ln EXCEPT ![vs[id].current_road][vs[id].current_lane] = SortLane(vs, @)]

(***************************************************************************)
(* simulation.py                                                           *)
(***************************************************************************)
\* node_data.get('traffic_light') is not None
HasLight(n) == n \in LightNodes

\* _can_enter_intersection that lets a vehicle through on yellow.
CanEnterOnYellow(vs, ls, id) ==
    LET r == vs[id].current_road
    IN  IF ~HasLight(r[2]) THEN TRUE
        ELSE GetStateForRoad(ls[r[2]], r[1], r[2]) # "RED"

\* Simulation._can_enter_intersection
CanEnterIntersection(vs, ls, id) ==
    LET r == vs[id].current_road
    IN  IF ~HasLight(r[2]) THEN TRUE
        ELSE GetStateForRoad(ls[r[2]], r[1], r[2]) = "GREEN"

\* _check_traffic_light that returns the distance to the stop line of any
\* light, green or not.
CheckTrafficLightAnyState(vs, ls, id) ==
    LET r               == vs[id].current_road
        distance_to_end == GetRoadLength(r) - vs[id].position
    IN  IF distance_to_end > INTERSECTION_DETECTION_DISTANCE THEN None
        ELSE IF ~HasLight(r[2]) THEN None
        ELSE Max(distance_to_end - STOP_LINE_OFFSET, 0)

\* Simulation._check_traffic_light: the distance to the stop line of a light
\* that is not green, or None.
CheckTrafficLight(vs, ls, id) ==
    LET r               == vs[id].current_road
        distance_to_end == GetRoadLength(r) - vs[id].position
    IN  IF distance_to_end > INTERSECTION_DETECTION_DISTANCE THEN None
        ELSE IF ~HasLight(r[2]) THEN None
        ELSE IF GetStateForRoad(ls[r[2]], r[1], r[2]) = "GREEN" THEN None
        ELSE Max(distance_to_end - STOP_LINE_OFFSET, 0)

RECURSIVE Power(_, _)
\* x ** k for a ratio x in thousandths.
Power(x, k) == IF k = 0 THEN 1000 ELSE (x * Power(x, k - 1)) \div 1000

\* 1 - (speed / desired_speed) ** delta, in thousandths.
FreeFlowTerm(v) == 1000 - Power((v.speed * 1000) \div v.desired_speed, DELTA)

\* The IDM calculation of compute_acceleration (lines 147-156).  The ratio
\* s_star / gap is saturated at 20: beyond it the value is far below
\* -max_deceleration, where set_acceleration clamps it.
IDM(v, gap, delta_v) ==
    LET root   == Sqrt(v.max_acceleration * v.max_deceleration)
        s_star == v.min_gap + (v.speed * v.time_headway) \div 10
                            + (v.speed * delta_v) \div (2 * root)
        ratio  == (s_star * 1000) \div Max(gap, 10)
        sat    == Max(0 - 20000, Min(ratio, 20000))
        interaction_term == (sat * sat) \div 1000
    IN  (v.max_acceleration * (FreeFlowTerm(v) - interaction_term)) \div 1000

\* Governing with the larger of the two gaps chosen when both leaders exist.
GoverningLargerGap(vs, id, leader, virtual) ==
    LET v            == vs[id]
        physical_gap == vs[leader].position - v.position - v.length
    IN  IF virtual # None
        THEN IF leader = None THEN IDM(v, virtual, v.speed)
             ELSE IF virtual > physical_gap THEN IDM(v, virtual, v.speed)
             ELSE IDM(v, physical_gap, v.speed - vs[leader].speed)
        ELSE IF leader = None
             THEN (v.max_acceleration * FreeFlowTerm(v)) \div 1000
             ELSE IDM(v, physical_gap, v.speed - vs[leader].speed)

\* The choice of the governing constraint in compute_acceleration (lines
\* 120-144): leader is the physical leader or None, virtual the distance to
\* the stop line of a light that is not green, or None.
Governing(vs, id, leader, virtual) ==
    LET v            == vs[id]
        physical_gap == vs[leader].position - v.position - v.length
    IN  IF virtual # None
        THEN IF leader = None THEN IDM(v, virtual, v.speed)
             ELSE IF virtual < physical_gap THEN IDM(v, virtual, v.speed)
             ELSE IDM(v, physical_gap, v.speed - vs[leader].speed)
        ELSE IF leader = None
             THEN (v.max_acceleration * FreeFlowTerm(v)) \div 1000
             ELSE IDM(v, physical_gap, v.speed - vs[leader].speed)

\* Simulation.compute_acceleration
ComputeAcceleration(vs, ln, ls, id) ==
    Governing(vs, id, GetLeadingVehicle(vs, ln, id), CheckTrafficLight(vs, ls, id))

\* One iteration of the physics loop of step (lines 42-44) for vehicle id.
MoveVehicle(w, ls, id) ==
    [w EXCEPT !.lanes = SortedInPlace(w.veh, w.lanes, id),
              !.veh[id] = VehicleUpdate(
                  SetAcceleration(w.veh[id],
                                  ComputeAcceleration(w.veh, w.lanes, ls, id)), dt)]

RECURSIVE PhysicsLoop(_, _, _, _)
\* The physics loop of step (lines 41-44) over order[k..].
PhysicsLoop(w, ls, order, k) ==
    IF k > Len(order) THEN w
    ELSE PhysicsLoop(MoveVehicle(w, ls, order[k]), ls, order, k + 1)

\* list.remove(x) where x is in the list.
Remove(L, x) == SelectSeq(L, LAMBDA y : y # x)

\* remove_vehicle that drops the vehicle without archiving it.
RemoveVehicleNoArchive(w, id) ==
    LET r == w.veh[id].current_road
        l == w.veh[id].current_lane
    IN  [w EXCEPT !.lanes[r][l] = Remove(@, id),
                  !.vehicles = Remove(@, id)]

\* Simulation.remove_vehicle
RemoveVehicle(w, id) ==
    LET r  == w.veh[id].current_road
        l  == w.veh[id].current_lane
        w1 == [w EXCEPT !.lanes[r][l] = Remove(@, id)]
    IN  IF \E k \in 1..Len(w.vehicles) : w.vehicles[k] = id
        THEN [w1 EXCEPT !.vehicles = Remove(@, id),
                        !.completed = Append(@, id)]
        ELSE w1

\* handle_road_transition that leaves the vehicle in the lane of its old road.
HandleRoadTransitionKeepsOldLane(w, id) ==
    LET v         == w.veh[id]
        overshoot == v.position - GetRoadLength(v.current_road)
        w1 == [w EXCEPT !.veh[id].route_index = @ + 1]
        ri == v.route_index + 1
    IN  IF ri >= Len(v.route) THEN RemoveVehicle(w1, id)
        ELSE LET new_road == v.route[ri + 1]
                 new_lane == IF v.current_lane >= NumLanes(new_road)
                             THEN NumLanes(new_road) - 1 ELSE v.current_lane
             IN  [w1 EXCEPT !.veh[id].position = Max(0, overshoot),
                            !.veh[id].current_road = new_road,
                            !.veh[id].current_lane = new_lane,
                            !.lanes[new_road][new_lane] = Append(@, id)]

\* handle_road_transition that places the vehicle at the start of its new
\* road, whatever the overshoot.
HandleRoadTransitionNoOvershoot(w, id) ==
    LET v  == w.veh[id]
        w1 == [w EXCEPT !.lanes[v.current_road][v.current_lane] = Remove(@, id),
                        !.veh[id].route_index = @ + 1]
        ri == v.route_index + 1
    IN  IF ri >= Len(v.route) THEN RemoveVehicle(w1, id)
        ELSE LET new_road == v.route[ri + 1]
                 new_lane == IF v.current_lane >= NumLanes(new_road)
                             THEN NumLanes(new_road) - 1 ELSE v.current_lane
             IN  [w1 EXCEPT !.veh[id].position = 0,
                            !.veh[id].current_road = new_road,
                            !.veh[id].current_lane = new_lane,
                            !.lanes[new_road][new_lane] = Append(@, id)]

\* Simulation.handle_road_transition
HandleRoadTransition(w, id) ==
    LET v         == w.veh[id]
        overshoot == v.position - GetRoadLength(v.current_road)
        w1 == [w EXCEPT !.lanes[v.current_road][v.current_lane] = Remove(@, id),
                        !.veh[id].route_index = @ + 1]
        ri == v.route_index + 1
    IN  IF ri >= Len(v.route) THEN RemoveVehicle(w1, id)
        ELSE LET new_road == v.route[ri + 1]
                 new_lane == IF v.current_lane >= NumLanes(new_road)
                             THEN NumLanes(new_road) - 1 ELSE v.current_lane
             IN  [w1 EXCEPT !.veh[id].position = Max(0, overshoot),
                            !.veh[id].current_road = new_road,
                            !.veh[id].current_lane = new_lane,
                            !.lanes[new_road][new_lane] = Append(@, id)]

\* The hard stop that moves the vehicle back and leaves its speed.
HardStopKeepsSpeed(v) ==
    SetAcceleration([v EXCEPT !.position = GetRoadLength(v.current_road) - STOP_LINE_OFFSET], 0)

\* The hard stop of step (lines 56-58).
HardStop(v) ==
    SetAcceleration([v EXCEPT !.position = GetRoadLength(v.current_road) - STOP_LINE_OFFSET,
                              !.speed = 0], 0)

\* One iteration of the end-of-road loop of step (lines 48-58) for vehicle id.
EndOfRoad(w, ls, id) ==
    LET v                  == w.veh[id]
        road_length        == GetRoadLength(v.current_road)
        stop_line_position == road_length - STOP_LINE_OFFSET
    IN  IF v.position >= stop_line_position
        THEN IF CanEnterIntersection(w.veh, ls, id)
             THEN IF v.position >= road_length THEN HandleRoadTransition(w, id) ELSE w
             ELSE [w EXCEPT !.veh[id] = HardStop(v)]
        ELSE w

RECURSIVE TransitionLoop(_, _, _, _)
\* The end-of-road loop of step (lines 47-58) over the copy order[k..].
TransitionLoop(w, ls, order, k) ==
    IF k > Len(order) THEN w
    ELSE TransitionLoop(EndOfRoad(w, ls, order[k]), ls, order, k + 1)

\* Simulation._update_traffic_lights
UpdateTrafficLights(ls) == [n \in DOMAIN ls |-> Update(ls[n], dt)]

\* SpawnRaises without the upper bound of the lane test.
SpawnRaisesLaneUnchecked(start, end, dest, lane) ==
    \/ <<start, end>> \notin Roads
    \/ ~HasRoute(start, dest)
    \/ lane < 0

\* Simulation.spawn_vehicle: whether the call raises (lines 92-96).
SpawnRaises(start, end, dest, lane) ==
    \/ <<start, end>> \notin Roads
    \/ ~HasRoute(start, dest)
    \/ lane < 0
    \/ lane >= NumLanes(<<start, end>>)

\* Simulation.spawn_vehicle: how the call returns.  get_road raises
\* ValueError (line 92); nx.shortest_path raises NodeNotFound for a
\* destination that is no node and NetworkXNoPath for one that no path
\* reaches (line 93); the lane test raises ValueError (lines 95-96).
SpawnReturn(start, end, dest, lane) ==
    IF <<start, end>> \notin Roads THEN "ValueError"
    ELSE IF dest \notin Nodes THEN "NodeNotFound"
    ELSE IF ~HasRoute(start, dest) THEN "NetworkXNoPath"
    ELSE IF lane < 0 \/ lane >= NumLanes(<<start, end>>) THEN "ValueError"
    ELSE "None"

(***************************************************************************)
(* Traffic generation (simulation.py, lines 200-273, demand_pattern.py).   *)
(* The spawner works on a record g: the world (veh, lanes, vehicles,       *)
(* completed) with next_vehicle_id, time_until_next_spawn, the exception   *)
(* that has left the spawner ("None" when none has) and the list of the    *)
(* attempts made so far in this step.  Every random draw is a choice, so   *)
(* the operators give the set of records the spawner can end in.           *)
(***************************************************************************)
\* The draws of the spawner: the inter-arrival samples of _sample_spawn_time
\* in ticks (all positive: -ln(U)/rate with 0 < U < 1), and the profile
\* (an index of Profiles) with the desired_speed_factor drawn for it.
SampleInputs == {5, 15}

ProfileInputs == {<<1, 1000>>, <<2, 1100>>}

\* float('inf') as the end of a period: a mark that is no time.
Infinity == 0 - 1

\* t < end for a time t and the end of a period.
Before(t, end) == end = Infinity \/ t < end

\* get_spawn_rate with the end of a period included in it.
GetSpawnRateEndIncluded(periods, t) ==
    LET hits == {k \in 1..Len(periods) :
                    periods[k][1] <= t /\ (Before(t, periods[k][2]) \/ t = periods[k][2])}
    IN  IF hits = {} THEN 0
        ELSE periods[CHOOSE k \in hits : \A j \in hits : k <= j][3]

\* DemandPattern.get_spawn_rate, in thousandths of a vehicle per second.
GetSpawnRate(periods, t) ==
    LET hits == {k \in 1..Len(periods) :
                    periods[k][1] <= t /\ Before(t, periods[k][2])}
    IN  IF hits = {} THEN 0
        ELSE periods[CHOOSE k \in hits : \A j \in hits : k <= j][3]

\* DemandPattern.create_rush_hour_pattern: the periods it adds.
CreateRushHourPattern ==
    << <<0, 3000, 200>>, <<3000, 6000, 1500>>, <<6000, 9000, 500>>,
       <<9000, 12000, 1500>>, <<12000, Infinity, 200>> >>

\* DemandPattern.create_constant_pattern(spawn_rate): the period it adds.
CreateConstantPattern(spawn_rate) == << <<0, Infinity, spawn_rate>> >>

RECURSIVE Cumulative(_, _)
\* The running sum of the weights of pairs[1..k] (_select_od_pair, lines 255-258).
Cumulative(pairs, k) == IF k = 0 THEN 0 ELSE Cumulative(pairs, k - 1) + pairs[k][3]

\* The values random.uniform(0, total_weight) is drawn from (line 253).
UniformInputs(pairs) ==
    Min(0, Cumulative(pairs, Len(pairs)))..Max(0, Cumulative(pairs, Len(pairs)))

\* Simulation._select_od_pair for the draw r: the index of the pair returned,
\* or 0 when the loop falls through to line 262, which raises AttributeError.
SelectOdPair(pairs, r) ==
    LET hits == {k \in 1..Len(pairs) : r <= Cumulative(pairs, k)}
    IN  IF hits = {} THEN 0 ELSE CHOOSE k \in hits : \A j \in hits : k <= j

\* _is_spawn_location_clear that finds every lane clear.
IsSpawnLocationClearAlways(vs, ln, road, lane) == TRUE

\* Simulation._is_spawn_location_clear
IsSpawnLocationClear(vs, ln, road, lane) ==
    \A k \in 1..Len(ln[road][lane]) : vs[ln[road][lane][k]].position >= MIN_CLEARANCE

\* The least position in a lane, or None for an empty lane.
Nearest(vs, ln, road, lane) ==
    IF ln[road][lane] = <<>> THEN None
    ELSE LET ps == {vs[ln[road][lane][k]].position : k \in 1..Len(ln[road][lane])}
         IN  CHOOSE x \in ps : \A y \in ps : x <= y

\* The record of one call of _spawn_traffic_vehicle.
Attempt(g, outcome, road, lane, nearest) ==
    [outcome |-> outcome, road |-> road, lane |-> lane, nearest |-> nearest,
     before |-> g.time_until_next_spawn, sample |-> 0, after |-> g.time_until_next_spawn]

\* g after a call of _spawn_traffic_vehicle that changed nothing.
Skipped(g, outcome, road, lane, nearest) ==
    [g EXCEPT !.attempts = Append(@, Attempt(g, outcome, road, lane, nearest))]

\* g after a call of _spawn_traffic_vehicle that an exception has left.
Raised(g, exc, road) ==
    [g EXCEPT !.raised = exc,
              !.attempts = Append(@, Attempt(g, "raised", road, None, None))]

\* g after a call of spawn_vehicle that returned (lines 98-109).
Spawned(g, road, lane, v) ==
    [g EXCEPT !.veh = [k \in 0..g.next_vehicle_id |->
                          IF k = g.next_vehicle_id THEN v ELSE g.veh[k]],
              !.vehicles = Append(@, g.next_vehicle_id),
              !.lanes[road][lane] = Append(@, g.next_vehicle_id),
              !.next_vehicle_id = @ + 1,
              !.attempts = Append(@, Attempt(g, "spawned", road, lane,
                                             Nearest(g.veh, g.lanes, road, lane)))]

\* Lines 226-242 of _spawn_traffic_vehicle for the spawn point road and the
\* destination dest.  The draws that would take the number of vehicles past
\* MaxVehicles are left out.
SpawnAt(g, road, dest) ==
    IF road \notin Roads THEN {Raised(g, "ValueError", road)}
    ELSE UNION {
           IF ~IsSpawnLocationClear(g.veh, g.lanes, road, lane)
           THEN {Skipped(g, "aborted", road, lane, Nearest(g.veh, g.lanes, road, lane))}
           ELSE IF ~HasRoute(road[1], dest)
           THEN {Skipped(g, "failed", road, lane, Nearest(g.veh, g.lanes, road, lane))}
           ELSE IF g.next_vehicle_id >= MaxVehicles THEN {}
           ELSE { Spawned(g, road, lane,
                          ProfileVehicle(road, lane, GetShortestRoute(road[1], dest),
                                         Profiles[c[1]], c[2])) : c \in ProfileInputs }
           : lane \in 0..(NumLanes(road) - 1) }

\* Simulation._spawn_traffic_vehicle
SpawnTrafficVehicle(g, pairs, points) ==
    IF pairs = <<>> \/ points = <<>> THEN {Skipped(g, "skipped", <<>>, None, None)}
    ELSE UNION {
           LET k == SelectOdPair(pairs, r)
           IN  IF k = 0 THEN {Raised(g, "AttributeError", <<>>)}
               ELSE LET valid == SelectSeq(points, LAMBDA pt : pt[1] = pairs[k][1])
                    IN  IF valid = <<>> THEN {Skipped(g, "skipped", <<>>, None, None)}
                        ELSE UNION { SpawnAt(g, valid[j], pairs[k][2]) :
                                       j \in 1..Len(valid) }
           : r \in UniformInputs(pairs) }

\* The re-arming of the countdown (line 211) with the sample s.
Rearm(g, s) ==
    [g EXCEPT !.time_until_next_spawn = @ + s,
              !.attempts[Len(g.attempts)].sample = s,
              !.attempts[Len(g.attempts)].after = g.time_until_next_spawn + s]

\* The loop test of _update_traffic_generation (line 209).
SpawnDue(g) == g.time_until_next_spawn <= 0

RECURSIVE SpawnLoop(_, _, _)
\* The loop of _update_traffic_generation (lines 209-211).
SpawnLoop(g, pairs, points) ==
    IF ~SpawnDue(g) THEN {g}
    ELSE UNION { IF a.raised # "None" THEN {a}
                 ELSE UNION { SpawnLoop(Rearm(a, s), pairs, points) : s \in SampleInputs }
                 : a \in SpawnTrafficVehicle(g, pairs, points) }

\* _update_traffic_generation that reads the rate of the time the step ends at.
UpdateTrafficGenerationAtEnd(g, gn, t) ==
    IF ~gn.demand_pattern.installed THEN {g}
    ELSE IF GetSpawnRate(gn.demand_pattern.time_periods, t + dt) <= 0 THEN {g}
    ELSE SpawnLoop([g EXCEPT !.time_until_next_spawn = @ - dt, !.decremented = TRUE],
                   gn.origin_destination_pairs, gn.spawn_points)

\* Simulation._update_traffic_generation at time t.
UpdateTrafficGeneration(g, gn, t) ==
    IF ~gn.demand_pattern.installed THEN {g}
    ELSE IF GetSpawnRate(gn.demand_pattern.time_periods, t) <= 0 THEN {g}
    ELSE SpawnLoop([g EXCEPT !.time_until_next_spawn = @ - dt, !.decremented = TRUE],
                   gn.origin_destination_pairs, gn.spawn_points)

(***************************************************************************)
(* History variables.  last is the call the driver made last.  obs[n] is   *)
(* what an observer of light n has measured from outside: the update time  *)
(* that has passed, the requests it saw accepted (returning True) and the  *)
(* changes of raw state and of phase index it saw.                         *)
(***************************************************************************)
Call(op, node, index, ret, d) ==
    [op |-> op, node |-> node, index |-> index, ret |-> ret, d |-> d]

ObsInit ==
    [total            |-> 0,      \* update time since construction
     accepts          |-> 0,      \* requests that returned True
     commits          |-> 0,      \* updates that turned YELLOW into GREEN
     requested        |-> None,   \* index of the last accepted request
     pending          |-> None,   \* that index, until the next commit
     since_accept     |-> 0,      \* update time since the last accepted request
     updates          |-> 0,      \* update calls since the last accepted request
     since_start      |-> 0,      \* update time since construction / last commit
     acc_since_start  |-> None,   \* since_start when the last request was accepted
     acc_since_prev   |-> None,   \* since_accept when it was accepted (None: first)
     changes          |-> 0,      \* changes of current_phase_index seen
     chg_op           |-> "none", \* the call that made the last such change,
     chg_state        |-> "none", \*   the raw state before it,
     chg_next         |-> None,   \*   next_phase_index before it,
     chg_index        |-> None,   \*   current_phase_index after it,
     chg_elapsed      |-> None]   \*   update time since the accepted request

\* obs[n] after a call op (with return value ret, index i, update time d) that
\* took light n from tl to tl2.
Observe(o, op, i, ret, d, tl, tl2) ==
    LET accepted  == op = "request" /\ ret = "True"
        committed == op # "request" /\ tl.state = "YELLOW" /\ tl2.state = "GREEN"
        changed   == tl2.current_phase_index # tl.current_phase_index
    IN  [total           |-> o.total + d,
         accepts         |-> IF accepted THEN o.accepts + 1 ELSE o.accepts,
         commits         |-> IF committed THEN o.commits + 1 ELSE o.commits,
         requested       |-> IF accepted THEN i ELSE o.requested,
         pending         |-> IF accepted THEN i
                             ELSE IF committed THEN None ELSE o.pending,
         since_accept    |-> IF accepted THEN 0 ELSE o.since_accept + d,
         updates         |-> IF accepted THEN 0
                             ELSE IF op = "request" THEN o.updates ELSE o.updates + 1,
         since_start     |-> IF committed THEN 0 ELSE o.since_start + d,
         acc_since_start |-> IF accepted THEN o.since_start ELSE o.acc_since_start,
         acc_since_prev  |-> IF accepted
                             THEN (IF o.accepts > 0 THEN o.since_accept ELSE None)
                             ELSE o.acc_since_prev,
         changes         |-> IF changed THEN o.changes + 1 ELSE o.changes,
         chg_op          |-> IF changed THEN op ELSE o.chg_op,
         chg_state       |-> IF changed THEN tl.state ELSE o.chg_state,
         chg_next        |-> IF changed THEN tl.next_phase_index ELSE o.chg_next,
         chg_index       |-> IF changed THEN tl2.current_phase_index ELSE o.chg_index,
         chg_elapsed     |-> IF changed THEN o.since_accept + d ELSE o.chg_elapsed]

EmptyLanes == [r \in Roads |-> [l \in 0..(NumLanes(r) - 1) |-> <<>>]]

\* phys: the vehicles the physics loop of the last step went through, in its
\* order, the acceleration set_acceleration stored for each of them and the
\* lane each of them was in when the step began.
PhysInit == [ids |-> <<>>, acc |-> <<>>, lane |-> <<>>]

\* Simulation.__init__, lines 17 and 24-28, for a simulation constructed with
\* dt = 1.0 s (ten ticks).  decremented and attempts are history: whether the
\* spawner of the last step decreased the countdown, and the calls of
\* _spawn_traffic_vehicle it made.
GenInit ==
    [dt                       |-> 10 * TIME_STEP,
     traffic_enabled          |-> FALSE,
     demand_pattern           |-> [installed |-> FALSE, time_periods |-> <<>>],
     time_until_next_spawn    |-> 0,
     origin_destination_pairs |-> <<>>,
     spawn_points             |-> <<>>,
     decremented              |-> FALSE,
     attempts                 |-> <<>>]

\* The record the spawner of a step starts from.
Generation ==
    [veh |-> veh, lanes |-> lanes, vehicles |-> vehicles,
     completed |-> completed_vehicles, next_vehicle_id |-> next_vehicle_id,
     time_until_next_spawn |-> gen.time_until_next_spawn,
     raised |-> "None", decremented |-> FALSE, attempts |-> <<>>]

(***************************************************************************)
(* The state after construction (Simulation.__init__ over the network).    *)
(***************************************************************************)
Init ==
    /\ graph = Network
    /\ time = 0
    /\ lights = [n \in LightNodes |-> TrafficLightInit]
    /\ veh = <<>>
    /\ vehicles = <<>>
    /\ completed_vehicles = <<>>
    /\ lanes = EmptyLanes
    /\ next_vehicle_id = 0
    /\ gen = GenInit
    /\ last = Call("init", None, None, "None", 0)
    /\ obs = [n \in LightNodes |-> ObsInit]
    /\ phys = PhysInit

\* The inputs of the driver.
PhaseInputs == (0 - 1)..NumPhases

SpawnInputs == {<<1, 5, 3, 0>>, <<1, 5, 3, 1>>, <<2, 5, 4, 0>>}

\* Calls of spawn_vehicle that fail: no road from 1 to 2, no route to node 6,
\* node 7 does not exist, lanes 2 and -1 do not exist.
FailingSpawnInputs ==
    {<<1, 2, 3, 0>>, <<1, 5, 6, 0>>, <<1, 5, 7, 0>>, <<1, 5, 3, 2>>, <<1, 5, 3, 0 - 1>>}

\* A spawn on the short road into the centre.
ShortRoadInputs == {<<6, 5, 3, 0>>}

\* Calls of spawn_vehicle that succeed with a road that is not the first of
\* the route: the road from the centre to node 1 with destination 3, and a
\* destination that is the start node.
MisroutedSpawnInputs == {<<Centre, 1, 3, 0>>, <<1, Centre, 1, 0>>}

\* The periods given to add_period (the second overlaps the first, the
\* fourth is empty), the rates given to create_constant_pattern and the times
\* get_spawn_rate is asked for.
PeriodInputs ==
    {<<0, 3000, 200>>, <<2000, 4000, 1500>>, <<4000, Infinity, 500>>, <<1000, 1000, 900>>}

RateInputs == {500, 2000}

TimeInputs ==
    {0 - 10, 0, 1999, 2000, 2999, 3000, 4000, 4500, 7500, 10000, 12000, 50000}

\* The nodes given to add_node (id, position, light attached or None; of
\* three nodes two are at the same position) and the node ids given to
\* add_road; node 4 is never added.
NodeInputs ==
    {<<1, <<0, 0>>, 1>>, <<1, <<300, 400>>, None>>,
     <<2, <<0, 0>>, None>>, <<2, <<300, 400>>, 2>>,
     <<3, <<0, 0>>, None>>, <<3, <<300, 400>>, None>>}

RoadEndInputs == {1, 2, 3, 4}

\* The vehicles of the runs that look up leaders, the positions they are put
\* at and the lanes of road (1, 5) the last of them is put in.
LeaderIds == 0..3

PositionInputs == {0, 600, 1200}

LaneInputs == {0, 1}

\* The runs that call compute_acceleration: the positions of the two
\* vehicles on road (1, 5) (outside the detection distance, at its border,
\* before, at and beyond the stop line), their speeds, and the light of the
\* centre: as constructed (GREEN for the road), YELLOW after an accepted
\* request, and GREEN in the other phase (RED for the road).
ApproachInputs == {900, 1000, 2400, 2800, 2900}

SpeedInputs == {0, 1000}

\* The lengths given to the two vehicles: the default, and one shorter than
\* STOP_LINE_OFFSET, the only kind of vehicle whose leader on the same road
\* can be farther away than the stop line.
LengthInputs == {VEHICLE_LENGTH, 50}

LightStateInputs ==
    {TrafficLightInit,
     RequestPhaseChange(Update(TrafficLightInit, MIN_GREEN_TIME), 1),
     Update(RequestPhaseChange(Update(TrafficLightInit, MIN_GREEN_TIME), 1), YELLOW_TIME)}

\* The accelerations requested of and the update times given to a vehicle
\* driven by hand.
AccelerationInputs == {0 - 10000, 0 - 200, 0, 10000}

DriveInputs == {4 * dt, 5 * dt}

\* The demand pattern of enable_traffic_generation: add_period(0, PatternEnd, 0.5).
DemandPeriods == << <<0, PatternEnd, 500>> >>

\* The origin-destination pairs (origin, destination, weight) and the spawn
\* points registered before the run.  The first is a sound configuration
\* with one origin that has no spawn point; in the second node 6 cannot be
\* reached and there is no road from 1 to 2; the third has a negative weight.
ConfigInputs ==
    { [origin_destination_pairs |-> << <<1, 3, 1>>, <<3, 1, 1>> >>,
       spawn_points             |-> << <<1, 5>> >>],
      [origin_destination_pairs |-> << <<1, 6, 1>>, <<1, 3, 1>> >>,
       spawn_points             |-> << <<1, 5>>, <<1, 2>> >>],
      [origin_destination_pairs |-> << <<1, 3, 0 - 1>> >>,
       spawn_points             |-> << <<1, 5>> >>] }

UpdateInputs == {dt, 2 * dt + 5}

\* Simulation.step.  When the spawner raises, the exception leaves step at
\* line 35: what the spawner did before stays, and nothing else is done.
StepBody ==
    /\ UNCHANGED graph
    /\ \E g \in (IF gen.traffic_enabled
                 THEN UpdateTrafficGeneration(Generation, gen, time)
                 ELSE {Generation}) :
         /\ gen' = [gen EXCEPT !.time_until_next_spawn = g.time_until_next_spawn,
                               !.decremented = g.decremented,
                               !.attempts = g.attempts]
         /\ next_vehicle_id' = g.next_vehicle_id
         /\ IF g.raised # "None"
            THEN /\ veh' = g.veh
                 /\ lanes' = g.lanes
                 /\ vehicles' = g.vehicles
                 /\ completed_vehicles' = g.completed
                 /\ last' = Call("step", None, None, g.raised, 0)
                 /\ UNCHANGED <<time, lights, obs, phys>>
            ELSE \E ls \in {UpdateTrafficLights(lights)} :
                 \E w1 \in {PhysicsLoop(g, ls, g.vehicles, 1)} :
                 \E w2 \in {TransitionLoop(w1, ls, g.vehicles, 1)} :
                     /\ lights' = ls
                     /\ veh' = w2.veh
                     /\ lanes' = w2.lanes
                     /\ vehicles' = w2.vehicles
                     /\ completed_vehicles' = w2.completed
                     /\ obs' = [n \in LightNodes |->
                                  Observe(obs[n], "step", None, "None", dt, lights[n], ls[n])]
                     /\ phys' = [ids |-> g.vehicles,
                                 acc |-> [k \in 1..Len(g.vehicles) |->
                                             w1.veh[g.vehicles[k]].acceleration],
                                 lane |-> [k \in 1..Len(g.vehicles) |->
                                             g.veh[g.vehicles[k]].current_lane]]
                     /\ time' = time + dt
                     /\ last' = Call("step", None, None, "None", dt)

\* step() within the horizon of the runs.
Step == time < MaxSteps * dt /\ StepBody

\* light.request_phase_change(i) on the light of node n, by the driver.
Request(n, i) ==
    /\ lights' = [lights EXCEPT ![n] = RequestPhaseChange(@, i)]
    /\ last' = Call("request", n, i, RequestReturn(lights[n], i), 0)
    /\ obs' = [obs EXCEPT ![n] = Observe(@, "request", i, RequestReturn(lights[n], i),
                                         0, lights[n], lights'[n])]
    /\ UNCHANGED <<graph, time, veh, vehicles, completed_vehicles, lanes, next_vehicle_id,
                   gen, phys>>

\* Simulation.spawn_vehicle(start, end, dest, lane), by the driver.
Spawn(start, end, dest, lane) ==
    /\ next_vehicle_id < MaxVehicles
    /\ IF SpawnRaises(start, end, dest, lane)
       THEN /\ last' = Call("spawn", start, <<start, end, dest, lane>>,
                            SpawnReturn(start, end, dest, lane), 0)
            /\ UNCHANGED <<veh, vehicles, lanes, next_vehicle_id>>
       ELSE LET id == next_vehicle_id
                v  == NewVehicle(<<start, end>>, lane, GetShortestRoute(start, dest))
            IN  /\ veh' = [k \in 0..id |-> IF k = id THEN v ELSE veh[k]]
                /\ vehicles' = Append(vehicles, id)
                /\ lanes' = [lanes EXCEPT ![<<start, end>>][lane] = Append(@, id)]
                /\ next_vehicle_id' = id + 1
                /\ last' = Call("spawn", start, <<start, end, dest, lane>>, "None", 0)
    /\ UNCHANGED <<graph, time, lights, completed_vehicles, gen, obs, phys>>

\* light.update(d) called directly on the light of node n.
LightUpdate(n, d) ==
    /\ obs[n].total + d <= MaxLightTime
    /\ lights' = [lights EXCEPT ![n] = Update(@, d)]
    /\ last' = Call("update", n, None, "None", d)
    /\ obs' = [obs EXCEPT ![n] = Observe(@, "update", None, "None", d,
                                         lights[n], lights'[n])]
    /\ UNCHANGED <<graph, time, veh, vehicles, completed_vehicles, lanes, next_vehicle_id,
                   gen, phys>>

\* Simulation.enable_traffic_generation(DemandPattern with DemandPeriods),
\* by a driver that enables generation once.
EnableTrafficGeneration ==
    /\ ~gen.traffic_enabled
    /\ ~gen.demand_pattern.installed
    /\ gen' = [gen EXCEPT !.demand_pattern = [installed |-> TRUE,
                                              time_periods |-> DemandPeriods],
                          !.traffic_enabled = TRUE,
                          !.time_until_next_spawn = 0]
    /\ last' = Call("enable", None, None, "None", 0)
    /\ UNCHANGED <<graph, time, lights, veh, vehicles, completed_vehicles, lanes,
                   next_vehicle_id, obs, phys>>

\* enable_traffic_generation that leaves the countdown as it is.
EnabledKeepsCountdown(g, pattern) ==
    [g EXCEPT !.demand_pattern = pattern,
              !.traffic_enabled = TRUE]

\* The fields of the simulation after enable_traffic_generation(pattern)
\* (lines 65-67).
Enabled(g, pattern) ==
    [g EXCEPT !.demand_pattern = pattern,
              !.traffic_enabled = TRUE,
              !.time_until_next_spawn = 0]

\* Simulation.enable_traffic_generation(pattern), by a driver that may call
\* it again after disable_traffic_generation.
EnableTrafficGenerationWith(pattern) ==
    /\ ~gen.traffic_enabled
    /\ gen' = Enabled(gen, pattern)
    /\ last' = Call("enable", None, None, "None", 0)
    /\ UNCHANGED <<graph, time, lights, veh, vehicles, completed_vehicles, lanes,
                   next_vehicle_id, obs, phys>>

\* Simulation.disable_traffic_generation
DisableTrafficGeneration ==
    /\ gen.traffic_enabled
    /\ gen' = [gen EXCEPT !.traffic_enabled = FALSE]
    /\ last' = Call("disable", None, None, "None", 0)
    /\ UNCHANGED <<graph, time, lights, veh, vehicles, completed_vehicles, lanes,
                   next_vehicle_id, obs, phys>>

\* step() within the horizon of the runs with traffic generation, by a
\* driver that does not call step again right after step has raised.
TrafficStep ==
    /\ time < MaxTrafficSteps * dt
    /\ ~(last.op = "step" /\ last.ret # "None")
    /\ Step

\* step() within the horizon of the runs with a vehicle driven by hand.
DriveStep == time < MaxDriveSteps * dt /\ Step

\* vehicle.set_acceleration(a) called directly on vehicle id.
SetAccelerationCall(id, a) ==
    /\ id \in DOMAIN veh
    /\ veh' = [veh EXCEPT ![id] = SetAcceleration(@, a)]
    /\ last' = Call("set_acceleration", id, a, "None", 0)
    /\ UNCHANGED <<graph, time, lights, vehicles, completed_vehicles, lanes,
                   next_vehicle_id, gen, obs, phys>>

\* vehicle.update(d) called directly on vehicle id.
UpdateCall(id, d) ==
    /\ id \in DOMAIN veh
    /\ veh[id].time_alive + d <= MaxDriveTime
    /\ veh' = [veh EXCEPT ![id] = VehicleUpdate(@, d)]
    /\ last' = Call("vehicle_update", id, None, "None", d)
    /\ UNCHANGED <<graph, time, lights, vehicles, completed_vehicles, lanes,
                   next_vehicle_id, gen, obs, phys>>

\* A request the light accepts.  A request that returns False or raises leaves
\* the light as it is (see Request): for the simulation it is a stuttering step.
AcceptedRequest(n, i) == RequestReturn(lights[n], i) = "True" /\ Request(n, i)

Next ==
    \/ Step
    \/ \E n \in LightNodes, i \in PhaseInputs : AcceptedRequest(n, i)
    \/ \E s \in SpawnInputs : Spawn(s[1], s[2], s[3], s[4])

\* The simulation driven by step, request_phase_change and spawn_vehicle.
Spec == Init /\ [][Next]_vars

NextLight ==
    \/ \E n \in LightNodes, d \in UpdateInputs : LightUpdate(n, d)
    \/ \E n \in LightNodes, i \in PhaseInputs : Request(n, i)

\* One traffic light driven by update and request_phase_change alone.
LightSpec == Init /\ [][NextLight]_vars

NextUnrequested ==
    \/ Step
    \/ \E s \in SpawnInputs : Spawn(s[1], s[2], s[3], s[4])

\* The simulation with a driver that never calls request_phase_change.
UnrequestedSpec == Init /\ [][NextUnrequested]_vars

NextSpawn ==
    \/ Step
    \/ \E s \in SpawnInputs \cup FailingSpawnInputs \cup ShortRoadInputs :
           Spawn(s[1], s[2], s[3], s[4])

\* The simulation driven by step and by spawn_vehicle calls that succeed or fail.
SpawnSpec == Init /\ [][NextSpawn]_vars

NextRoute ==
    \/ Step
    \/ \E s \in SpawnInputs \cup MisroutedSpawnInputs : Spawn(s[1], s[2], s[3], s[4])

\* The simulation driven by step and by spawn_vehicle calls on any road that
\* leaves the start node.
RouteSpec == Init /\ [][NextRoute]_vars

\* The state after the origin-destination pairs and the spawn points of one
\* configuration have been registered.
TrafficInit ==
    /\ graph = Network
    /\ time = 0
    /\ lights = [n \in LightNodes |-> TrafficLightInit]
    /\ veh = <<>>
    /\ vehicles = <<>>
    /\ completed_vehicles = <<>>
    /\ lanes = EmptyLanes
    /\ next_vehicle_id = 0
    /\ \E c \in ConfigInputs :
          gen = [GenInit EXCEPT !.origin_destination_pairs = c.origin_destination_pairs,
                                !.spawn_points = c.spawn_points]
    /\ last = Call("init", None, None, "None", 0)
    /\ obs = [n \in LightNodes |-> ObsInit]
    /\ phys = PhysInit

NextTraffic ==
    \/ EnableTrafficGeneration
    \/ DisableTrafficGeneration
    \/ TrafficStep

\* The simulation with automatic traffic generation.
TrafficSpec == TrafficInit /\ [][NextTraffic]_vars

\* spawn_vehicle and accepted requests during the first MaxSetupSteps steps.
SetupSpawn(start, end, dest, lane) ==
    time <= MaxSetupSteps * dt /\ Spawn(start, end, dest, lane)

SetupRequest(n, i) == time <= MaxSetupSteps * dt /\ AcceptedRequest(n, i)

\* step() within the horizon of the runs that are followed to their end.
ProgressStep == time < MaxProgressSteps * dt /\ StepBody

NextProgress ==
    \/ ProgressStep
    \/ \E n \in LightNodes, i \in PhaseInputs : SetupRequest(n, i)
    \/ \E s \in SpawnInputs : SetupSpawn(s[1], s[2], s[3], s[4])

\* What a step of ProgressStep does to the clock (line 61).  Without traffic
\* generation step() does not raise, so the steps of NextProgress that advance
\* the time are the steps of ProgressStep, and ProgressStep is enabled
\* exactly when Advance is.
Advance == time < MaxProgressSteps * dt /\ time' = time + dt

\* The simulation without traffic generation, with a driver that spawns
\* vehicles and requests phase changes for a while and goes on calling step,
\* as the loop of test.py does: step is taken again and again.
ProgressSpec == Init /\ [][NextProgress]_vars /\ WF_time(Advance)

\* The demand patterns given to enable_traffic_generation: None, the pattern
\* with the one period of DemandPeriods, and constant patterns of rate 0 and
\* of a negative rate.
PatternInputs ==
    { [installed |-> FALSE, time_periods |-> <<>>],
      [installed |-> TRUE, time_periods |-> DemandPeriods],
      [installed |-> TRUE, time_periods |-> CreateConstantPattern(0)],
      [installed |-> TRUE, time_periods |-> CreateConstantPattern(0 - 500)] }

\* The state after add_origin_destination_pair(1, 3) and add_spawn_point(1, 5)
\* on the new simulation: traffic generation has not been enabled.
GenerationInit ==
    /\ graph = Network
    /\ time = 0
    /\ lights = [n \in LightNodes |-> TrafficLightInit]
    /\ veh = <<>>
    /\ vehicles = <<>>
    /\ completed_vehicles = <<>>
    /\ lanes = EmptyLanes
    /\ next_vehicle_id = 0
    /\ gen = [GenInit EXCEPT !.origin_destination_pairs = << <<1, 3, 1>> >>,
                             !.spawn_points = << <<1, 5>> >>]
    /\ last = Call("init", None, None, "None", 0)
    /\ obs = [n \in LightNodes |-> ObsInit]
    /\ phys = PhysInit

NextGeneration ==
    \/ \E p \in PatternInputs : EnableTrafficGenerationWith(p)
    \/ DisableTrafficGeneration
    \/ TrafficStep

\* The simulation with traffic generation enabled, with any of the patterns,
\* and disabled at any time.
GenerationSpec == GenerationInit /\ [][NextGeneration]_vars

\* The state after add_origin_destination_pair(2, 4), add_spawn_point(2, 5)
\* and enable_traffic_generation: vehicles are spawned on a road for which
\* the light is red.
OrderInit ==
    /\ graph = Network
    /\ time = 0
    /\ lights = [n \in LightNodes |-> TrafficLightInit]
    /\ veh = <<>>
    /\ vehicles = <<>>
    /\ completed_vehicles = <<>>
    /\ lanes = EmptyLanes
    /\ next_vehicle_id = 0
    /\ gen = [GenInit EXCEPT !.origin_destination_pairs = << <<2, 4, 1>> >>,
                             !.spawn_points = << <<2, 5>> >>,
                             !.demand_pattern = [installed |-> TRUE,
                                                 time_periods |-> DemandPeriods],
                             !.traffic_enabled = TRUE]
    /\ last = Call("init", None, None, "None", 0)
    /\ obs = [n \in LightNodes |-> ObsInit]
    /\ phys = PhysInit

NextOrder ==
    \/ Step
    \/ \E n \in LightNodes, i \in PhaseInputs : AcceptedRequest(n, i)

\* The simulation with automatic traffic generation and a driver that
\* requests phase changes.
OrderSpec == OrderInit /\ [][NextOrder]_vars

\* A state of the scenario of test.py (Simulation(network) with the default
\* dt, the constant demand pattern, a spawn point on every leg, the four
\* origin-destination pairs, the light requested to change every
\* LIGHT_DURATION): the time, the countdown of the spawner (rounded up to
\* the tick), the time the light has been in its phase, and the vehicles of
\* lane 1 of roads (1, 5) and (5, 3) in the order they were spawned in, each
\* with the index of its profile, its desired_speed_factor, route_index,
\* position, speed, acceleration, total_wait_time, total_stops and
\* time_alive.  The vehicles of the other lanes and roads are left out: a
\* vehicle is moved by its own lane and the light only.
Snapshot ==
    [time                  |-> 794,
     time_until_next_spawn |-> 16,
     time_in_phase         |-> 164,
     vehicles |-> << <<2, 1149, 1, 8686, 1333, 268, 192, 1, 422>>,
                     <<3, 806, 1, 5492, 972, 64, 101, 1, 342>>,
                     <<1, 961, 1, 3537, 810, 80, 79, 1, 293>>,
                     <<1, 978, 1, 2039, 590, 73, 15, 0, 218>>,
                     <<1, 928, 1, 770, 906, 0 - 500, 3, 0, 149>>,
                     <<2, 1176, 0, 9212, 1398, 253, 2, 0, 92>>,
                     <<2, 1109, 0, 6177, 1466, 42, 2, 0, 62>>,
                     <<2, 1137, 0, 2055, 1199, 294, 2, 0, 32>> >>]

\* The vehicle of an entry of Snapshot: spawned by _spawn_traffic_vehicle in
\* lane 1 of road (1, 5) for the pair (1, 3), and driven since.
SnapshotVehicle(t) ==
    LET route == GetShortestRoute(1, 3)
    IN  [ProfileVehicle(route[1], 1, route, Profiles[t[1]], t[2]) EXCEPT
            !.route_index     = t[3],
            !.current_road    = route[t[3] + 1],
            !.position        = t[4],
            !.speed           = t[5],
            !.previous_speed  = t[5],
            !.acceleration    = t[6],
            !.total_wait_time = t[7],
            !.total_stops     = t[8],
            !.time_alive      = t[9]]

\* The ids of the vehicles of sn on road r, nearest to its start first (the
\* order the sort of get_leading_vehicle leaves the lane in).
RECURSIVE SnapshotLane(_, _, _)
SnapshotLane(sn, r, k) ==
    IF k = 0 THEN <<>>
    ELSE IF GetShortestRoute(1, 3)[sn[k][3] + 1] = r
         THEN <<k - 1>> \o SnapshotLane(sn, r, k - 1)
         ELSE SnapshotLane(sn, r, k - 1)

ScenarioInit ==
    /\ graph = ScenarioNetwork
    /\ time = Snapshot.time
    /\ lights = [n \in LightNodes |->
                    [TrafficLightInit EXCEPT !.green_time = LIGHT_DURATION,
                                             !.time_in_phase = Snapshot.time_in_phase]]
    /\ veh = [id \in 0..(Len(Snapshot.vehicles) - 1) |->
                 SnapshotVehicle(Snapshot.vehicles[id + 1])]
    /\ vehicles = [k \in 1..Len(Snapshot.vehicles) |-> k - 1]
    /\ completed_vehicles = <<>>
    /\ lanes = [EmptyLanes EXCEPT
                   ![<<1, Centre>>][1] =
                       SnapshotLane(Snapshot.vehicles, <<1, Centre>>, Len(Snapshot.vehicles)),
                   ![<<Centre, 3>>][1] =
                       SnapshotLane(Snapshot.vehicles, <<Centre, 3>>, Len(Snapshot.vehicles))]
    /\ next_vehicle_id = Len(Snapshot.vehicles)
    /\ gen = [GenInit EXCEPT
                 !.dt = TIME_STEP,
                 !.traffic_enabled = TRUE,
                 !.demand_pattern = [installed |-> TRUE,
                                     time_periods |-> CreateConstantPattern(SPAWN_RATE)],
                 !.time_until_next_spawn = Snapshot.time_until_next_spawn,
                 !.origin_destination_pairs =
                     << <<1, 3, 1>>, <<2, 4, 1>>, <<3, 1, 1>>, <<4, 2, 1>> >>,
                 !.spawn_points = << <<1, 5>>, <<2, 5>>, <<3, 5>>, <<4, 5>> >>]
    /\ last = Call("init", None, None, "None", 0)
    /\ obs = [n \in LightNodes |-> ObsInit]
    /\ phys = PhysInit

\* step() within the horizon of the scenario.
ScenarioStep == time < Snapshot.time + MaxScenarioSteps * dt /\ StepBody

NextScenario ==
    \/ ScenarioStep
    \/ \E n \in LightNodes, i \in PhaseInputs : AcceptedRequest(n, i)

\* The scenario of test.py, followed from a state it passes through.
ScenarioSpec == ScenarioInit /\ [][NextScenario]_vars

\* A DemandPattern as its constructor or one of its factory methods leaves
\* it; the pattern is held in gen.demand_pattern, not installed.
PatternInit ==
    /\ graph = Network
    /\ time = 0
    /\ lights = [n \in LightNodes |-> TrafficLightInit]
    /\ veh = <<>>
    /\ vehicles = <<>>
    /\ completed_vehicles = <<>>
    /\ lanes = EmptyLanes
    /\ next_vehicle_id = 0
    /\ \E p \in {<<>>, CreateRushHourPattern}
                 \cup {CreateConstantPattern(r) : r \in RateInputs} :
          gen = [GenInit EXCEPT !.demand_pattern.time_periods = p]
    /\ last = Call("init", None, None, "None", 0)
    /\ obs = [n \in LightNodes |-> ObsInit]
    /\ phys = PhysInit

\* DemandPattern.add_period(start_time, end_time, spawn_rate)
AddPeriod(p) ==
    /\ Len(gen.demand_pattern.time_periods) < MaxPeriods
    /\ gen' = [gen EXCEPT !.demand_pattern.time_periods = Append(@, p)]
    /\ last' = Call("add_period", None, p, "None", 0)
    /\ UNCHANGED <<graph, time, lights, veh, vehicles, completed_vehicles, lanes,
                   next_vehicle_id, obs, phys>>

\* DemandPattern.get_spawn_rate(t); ret is the rate returned.
GetSpawnRateCall(t) ==
    /\ last' = Call("get_spawn_rate", None, t,
                    GetSpawnRate(gen.demand_pattern.time_periods, t), 0)
    /\ UNCHANGED <<graph, time, lights, veh, vehicles, completed_vehicles, lanes,
                   next_vehicle_id, gen, obs, phys>>

NextPattern ==
    \/ \E p \in PeriodInputs : AddPeriod(p)
    \/ \E t \in TimeInputs : GetSpawnRateCall(t)

\* One demand pattern driven by add_period and get_spawn_rate.
PatternSpec == PatternInit /\ [][NextPattern]_vars

\* RoadNetwork() before any node is added.
NetworkInit ==
    /\ graph = EmptyGraph
    /\ time = 0
    /\ lights = [n \in LightNodes |-> TrafficLightInit]
    /\ veh = <<>>
    /\ vehicles = <<>>
    /\ completed_vehicles = <<>>
    /\ lanes = <<>>
    /\ next_vehicle_id = 0
    /\ gen = GenInit
    /\ last = Call("init", None, None, "None", 0)
    /\ obs = [n \in LightNodes |-> ObsInit]
    /\ phys = PhysInit

\* The 'vehicles' of every edge of g2: empty for an edge the call has added
\* or replaced, as before for every other edge.
LanesAfter(g, g2, added) ==
    [r \in DOMAIN g2.edges |->
        IF r \in added \/ r \notin DOMAIN g.edges
        THEN [l \in 0..(g2.edges[r].num_lanes - 1) |-> <<>>]
        ELSE lanes[r]]

\* network.add_node(node_id, pos, traffic_light)
AddNodeCall(node_id, pos, traffic_light) ==
    /\ graph' = AddNode(graph, node_id, pos, traffic_light)
    /\ last' = Call("add_node", node_id, <<pos, traffic_light>>,
                    AddNodeReturn(graph, node_id), 0)
    /\ UNCHANGED <<time, lights, veh, vehicles, completed_vehicles, lanes,
                   next_vehicle_id, gen, obs, phys>>

\* network.add_road(a, b)
AddRoadCall(a, b) ==
    /\ graph' = AddRoad(graph, a, b)
    /\ lanes' = LanesAfter(graph, graph',
                           IF AddRoadReturn(graph, a, b) = "None" THEN {<<a, b>>} ELSE {})
    /\ last' = Call("add_road", a, b, AddRoadReturn(graph, a, b), 0)
    /\ UNCHANGED <<time, lights, veh, vehicles, completed_vehicles,
                   next_vehicle_id, gen, obs, phys>>

\* network.add_two_way_road(a, b)
AddTwoWayRoadCall(a, b) ==
    /\ graph' = AddTwoWayRoad(graph, a, b)
    /\ lanes' = LanesAfter(graph, graph',
                           IF AddTwoWayRoadReturn(graph, a, b) = "None"
                           THEN {<<a, b>>, <<b, a>>} ELSE {})
    /\ last' = Call("add_two_way_road", a, b, AddTwoWayRoadReturn(graph, a, b), 0)
    /\ UNCHANGED <<time, lights, veh, vehicles, completed_vehicles,
                   next_vehicle_id, gen, obs, phys>>

NextNetwork ==
    \/ \E n \in NodeInputs : AddNodeCall(n[1], n[2], n[3])
    \/ \E a, b \in RoadEndInputs : AddRoadCall(a, b)
    \/ \E p \in {q \in RoadEndInputs \X RoadEndInputs : q[1] <= q[2]} :
           AddTwoWayRoadCall(p[1], p[2])

\* A road network under construction.
NetworkSpec == NetworkInit /\ [][NextNetwork]_vars

\* The lists that hold every element of the set S once.
Orders(S) ==
    {f \in [1..Cardinality(S) -> S] : \A j, k \in 1..Cardinality(S) : f[j] = f[k] => j = k}

\* Four vehicles on road (1, 5) with destination 3: the first three in lane
\* 0, in any order of the lane list, the last in either lane; every vehicle
\* at one of the positions.
LeaderInit ==
    /\ graph = Network
    /\ time = 0
    /\ lights = [n \in LightNodes |-> TrafficLightInit]
    /\ \E ps \in [LeaderIds -> PositionInputs], ln \in LaneInputs :
          /\ veh = [id \in LeaderIds |->
                       [NewVehicle(<<1, Centre>>, IF id = 3 THEN ln ELSE 0,
                                   GetShortestRoute(1, 3))
                          EXCEPT !.position = ps[id]]]
          /\ \E o \in Orders({id \in LeaderIds : id # 3 \/ ln = 0}) :
                lanes = [EmptyLanes EXCEPT
                           ![<<1, Centre>>] = [l \in LaneInputs |->
                                                 IF l = 0 THEN o
                                                 ELSE IF ln = 1 THEN <<3>> ELSE <<>>]]
    /\ vehicles = <<0, 1, 2, 3>>
    /\ completed_vehicles = <<>>
    /\ next_vehicle_id = 4
    /\ gen = GenInit
    /\ last = Call("init", None, None, "None", 0)
    /\ obs = [n \in LightNodes |-> ObsInit]
    /\ phys = PhysInit

\* vehicle.get_leading_vehicle(road_network) called on vehicle id; index is
\* the vehicle returned, or None.
GetLeadingVehicleCall(id) ==
    /\ last' = Call("get_leading_vehicle", id, GetLeadingVehicle(veh, lanes, id), "None", 0)
    /\ lanes' = SortedInPlace(veh, lanes, id)
    /\ UNCHANGED <<graph, time, lights, veh, vehicles, completed_vehicles,
                   next_vehicle_id, gen, obs, phys>>

NextLeader == \E id \in LeaderIds : GetLeadingVehicleCall(id)

\* Vehicles in a lane asked for their leaders.
LeaderSpec == LeaderInit /\ [][NextLeader]_vars

\* Two vehicles in lane 0 of road (1, 5) and a third that has moved on to
\* road (5, 3), whose end node has no light, and is near its end.
AccelerationInit ==
    /\ graph = Network
    /\ time = 0
    /\ \E tl \in LightStateInputs : lights = [n \in LightNodes |-> tl]
    /\ \E ps \in [{0, 1} -> ApproachInputs], ss \in [{0, 1} -> SpeedInputs],
          len \in LengthInputs :
          veh = [id \in 0..2 |->
                    IF id = 2
                    THEN [NewVehicle(<<Centre, 3>>, 0, GetShortestRoute(1, 3))
                            EXCEPT !.route_index = 1, !.position = 2400, !.speed = 1000]
                    ELSE [NewVehicle(<<1, Centre>>, 0, GetShortestRoute(1, 3))
                            EXCEPT !.position = ps[id], !.speed = ss[id],
                                   !.length = len]]
    /\ vehicles = <<0, 1, 2>>
    /\ completed_vehicles = <<>>
    /\ lanes = [EmptyLanes EXCEPT ![<<1, Centre>>][0] = <<0, 1>>,
                                  ![<<Centre, 3>>][0] = <<2>>]
    /\ next_vehicle_id = 3
    /\ gen = GenInit
    /\ last = Call("init", None, None, "None", 0)
    /\ obs = [n \in LightNodes |-> ObsInit]
    /\ phys = PhysInit

\* sim.compute_acceleration(vehicle) called on vehicle id; index is the
\* value returned.
ComputeAccelerationCall(id) ==
    /\ last' = Call("compute_acceleration", id,
                    ComputeAcceleration(veh, lanes, lights, id), "None", 0)
    /\ lanes' = SortedInPlace(veh, lanes, id)
    /\ UNCHANGED <<graph, time, lights, veh, vehicles, completed_vehicles,
                   next_vehicle_id, gen, obs, phys>>

NextAcceleration == \E id \in 0..2 : ComputeAccelerationCall(id)

\* Vehicles before a light asked for their accelerations.
AccelerationSpec == AccelerationInit /\ [][NextAcceleration]_vars

\* The state after spawn_vehicle(1, 5, 3, 0) on the new simulation.
VehicleInit ==
    /\ graph = Network
    /\ time = 0
    /\ lights = [n \in LightNodes |-> TrafficLightInit]
    /\ veh = [k \in {0} |-> NewVehicle(<<1, 5>>, 0, GetShortestRoute(1, 3))]
    /\ vehicles = <<0>>
    /\ completed_vehicles = <<>>
    /\ lanes = [EmptyLanes EXCEPT ![<<1, 5>>][0] = <<0>>]
    /\ next_vehicle_id = 1
    /\ gen = GenInit
    /\ last = Call("spawn", 1, <<1, 5, 3, 0>>, "None", 0)
    /\ obs = [n \in LightNodes |-> ObsInit]
    /\ phys = PhysInit

NextVehicle ==
    \/ \E a \in AccelerationInputs : SetAccelerationCall(0, a)
    \/ \E d \in DriveInputs : UpdateCall(0, d)
    \/ DriveStep

\* One vehicle driven by set_acceleration and update calls and by step.
VehicleSpec == VehicleInit /\ [][NextVehicle]_vars

(***************************************************************************)
(* Properties.                                                             *)
(***************************************************************************)
\* Every ordered pair of nodes: the roads of the network and pairs that are
\* no road and belong to no phase.
RoadPairs == Nodes \X Nodes

Active(id) == \E k \in 1..Len(vehicles) : vehicles[k] = id

\* The verdict of the light at the end of vehicle id's road is not GREEN.
NotGreenFor(vs, ls, id) ==
    LET r == vs[id].current_road
    IN  HasLight(r[2]) /\ GetStateForRoad(ls[r[2]], r[1], r[2]) # "GREEN"

StopLine(r) == GetRoadLength(r) - STOP_LINE_OFFSET

\* C1: in a step in which, after the light update, the light at the end of a
\* vehicle's road does not report GREEN for that road, the vehicle is not
\* moved to its next road and not archived, and it ends the step at or
\* before the stop line; no other call moves a vehicle.  So a vehicle held at
\* a light stays at or before the stop line until a step whose verdict is GREEN.
C1_HeldAtStopLine ==
    [][/\ last'.op = "step" =>
            \A k \in 1..Len(vehicles) :
                LET id == vehicles[k]
                IN  NotGreenFor(veh, lights', id) =>
                      /\ veh'[id].current_road = veh[id].current_road
                      /\ veh'[id].route_index = veh[id].route_index
                      /\ \E j \in 1..Len(vehicles') : vehicles'[j] = id
                      /\ \A j \in 1..Len(completed_vehicles') : completed_vehicles'[j] # id
                      /\ veh'[id].position <= StopLine(veh[id].current_road)
       /\ last'.op # "step" =>
            \A id \in DOMAIN veh : veh'[id] = veh[id]]_vars

\* C1 witness: after a step, a vehicle that has been driving stands stopped at
\* the stop line of a light that is not green for it.
C1_Witness ==
    /\ last.op = "step"
    /\ \E id \in DOMAIN veh :
         /\ Active(id)
         /\ NotGreenFor(veh, lights, id)
         /\ veh[id].position = StopLine(veh[id].current_road)
         /\ veh[id].speed = 0
         /\ veh[id].time_alive >= 3 * dt

\* C2: in a step, the acceleration stored for every vehicle by the physics
\* loop is the one computed from the positions and speeds all vehicles had
\* before any of them was moved in that step.
C2_SnapshotAcceleration ==
    [][last'.op = "step" =>
         \A k \in 1..Len(phys'.ids) :
             LET id == phys'.ids[k]
             IN  phys'.acc[k] =
                   SetAcceleration(veh[id],
                       ComputeAcceleration(veh, lanes, lights', id)).acceleration]_vars

\* C3: current_phase_index changes only in update, only from raw state YELLOW
\* with a pending target, to that target, and only once the update time since
\* the accepted request is at least yellow_time; from the accepted request to
\* the commit every road reports YELLOW, and the window is never cut short.
C3_YellowWindow ==
    \A n \in LightNodes :
        LET o == obs[n]
        IN  /\ o.changes > 0 =>
                 /\ o.chg_op \in {"update", "step"}
                 /\ o.chg_state = "YELLOW"
                 /\ o.chg_next # None
                 /\ o.chg_index = o.chg_next
                 /\ o.chg_elapsed >= YELLOW_TIME
            /\ o.changes = o.commits
            /\ o.pending # None =>
                 \A r \in RoadPairs : GetStateForRoad(lights[n], r[1], r[2]) = "YELLOW"
            /\ (o.accepts > 0 /\ o.since_accept < YELLOW_TIME) => o.pending # None

\* C3 witness: a phase index has changed, in an update that overshot yellow_time.
C3_Witness ==
    \E n \in LightNodes :
        /\ obs[n].changes > 0
        /\ obs[n].chg_elapsed > YELLOW_TIME
        /\ last.op = "update"

\* C4: request_phase_change(i) with a valid i returns False and leaves the
\* light unchanged when i is the current phase, or time_in_phase is below
\* min_green_time, or a transition is in progress.
C4_RejectedRequest ==
    [][\A n \in LightNodes :
         (/\ last'.op = "request"
          /\ last'.node = n
          /\ last'.index \in 0..(NumPhases - 1)
          /\ \/ last'.index = lights[n].current_phase_index
             \/ lights[n].time_in_phase < MIN_GREEN_TIME
             \/ lights[n].transitioning)
         => /\ last'.ret = "False"
            /\ lights'[n] = lights[n]]_vars

\* C4 witness: during YELLOW a request for a third phase, neither the current
\* nor the pending one, has returned False.
C4_Witness ==
    /\ last.op = "request"
    /\ last.ret = "False"
    /\ lights[last.node].state = "YELLOW"
    /\ last.index # lights[last.node].current_phase_index
    /\ last.index # lights[last.node].next_phase_index

\* C5: request_phase_change(i) with a valid i other than the current phase,
\* in raw state GREEN with no transition in progress and time_in_phase >=
\* min_green_time, returns True and leaves raw state YELLOW, pending target i,
\* time_in_phase 0 and the old current_phase_index.
C5_AcceptedRequest ==
    [][\A n \in LightNodes :
         (/\ last'.op = "request"
          /\ last'.node = n
          /\ last'.index \in 0..(NumPhases - 1)
          /\ last'.index # lights[n].current_phase_index
          /\ lights[n].state = "GREEN"
          /\ ~lights[n].transitioning
          /\ lights[n].time_in_phase >= MIN_GREEN_TIME)
         => /\ last'.ret = "True"
            /\ lights'[n].state = "YELLOW"
            /\ lights'[n].next_phase_index = last'.index
            /\ lights'[n].time_in_phase = 0
            /\ lights'[n].current_phase_index = lights[n].current_phase_index]_vars

\* C5 witness: a request has just been accepted after more than min_green_time.
C5_Witness ==
    /\ last.op = "request"
    /\ last.ret = "True"
    /\ obs[last.node].acc_since_start > MIN_GREEN_TIME

\* C6: once the updates after an accepted request for phase i add up to
\* yellow_time, the light is in phase i, GREEN, not transitioning, with no
\* pending target, and time_in_phase is 0 after the update that got there;
\* YELLOW lasts fewer than yellow_time/dt updates of at least dt each.
C6_LandsInRequestedPhase ==
    \A n \in LightNodes :
        LET o  == obs[n]
            tl == lights[n]
        IN  /\ (o.accepts > 0 /\ o.since_accept >= YELLOW_TIME) =>
                 /\ tl.current_phase_index = o.requested
                 /\ tl.state = "GREEN"
                 /\ ~tl.transitioning
                 /\ tl.next_phase_index = None
            /\ (/\ o.accepts > 0
                /\ last.op \in {"update", "step"}
                /\ o.since_accept >= YELLOW_TIME
                /\ o.since_accept - last.d < YELLOW_TIME) => tl.time_in_phase = 0
            /\ tl.state = "YELLOW" =>
                 /\ o.since_accept < YELLOW_TIME
                 /\ o.updates * dt < YELLOW_TIME

\* C6 witness: the update that completed exactly yellow_time has landed in the
\* requested phase.
C6_Witness ==
    \E n \in LightNodes :
        /\ last.op = "update"
        /\ obs[n].accepts > 0
        /\ obs[n].since_accept = YELLOW_TIME
        /\ lights[n].current_phase_index = obs[n].requested
        /\ lights[n].time_in_phase = 0

\* C7: a request is accepted only when at least min_green_time of update time
\* has passed since construction or the last commit; so two accepted requests
\* are at least yellow_time + min_green_time of update time apart.
C7_MinimumGreen ==
    \A n \in LightNodes :
        LET o == obs[n]
        IN  o.accepts > 0 =>
              /\ o.acc_since_start >= MIN_GREEN_TIME
              /\ o.acc_since_prev # None =>
                   o.acc_since_prev >= YELLOW_TIME + MIN_GREEN_TIME

\* C7 witness: a second request has been accepted.
C7_Witness == \E n \in LightNodes : obs[n].accepts >= 2 /\ obs[n].acc_since_prev # None

\* C8: get_state_for_road is YELLOW for every pair of nodes while the raw
\* state is YELLOW; otherwise GREEN exactly for the roads of the current
\* phase and RED for all others.  The roads reported GREEN are none or exactly
\* the green set of the current phase.
C8_RoadVerdicts ==
    \A n \in LightNodes :
        LET tl    == lights[n]
            cur   == Phases[tl.current_phase_index + 1]
            green == {r \in RoadPairs : GetStateForRoad(tl, r[1], r[2]) = "GREEN"}
        IN  /\ tl.state = "YELLOW" =>
                 \A r \in RoadPairs : GetStateForRoad(tl, r[1], r[2]) = "YELLOW"
            /\ tl.state # "YELLOW" =>
                 \A r \in RoadPairs :
                     GetStateForRoad(tl, r[1], r[2]) = IF r \in cur THEN "GREEN" ELSE "RED"
            /\ green = {} \/ green = cur
            /\ \A r \in RoadPairs : r \notin cur => r \notin green

\* C8 witness: the light is YELLOW on the way out of a phase other than the
\* initial one.
C8_Witness ==
    \E n \in LightNodes :
        /\ lights[n].state = "YELLOW"
        /\ lights[n].current_phase_index # 0

\* C9: request_phase_change(i) with i < 0 or i >= the number of phases raises
\* in every light state and leaves the light unchanged.
C9_InvalidIndexRaises ==
    [][\A n \in LightNodes :
         (/\ last'.op = "request"
          /\ last'.node = n
          /\ (last'.index < 0 \/ last'.index >= Len(Phases)))
         => /\ last'.ret = "ValueError"
            /\ lights'[n] = lights[n]]_vars

\* C9 witness: an out-of-range request has raised during YELLOW.
C9_Witness ==
    /\ last.op = "request"
    /\ last.ret = "ValueError"
    /\ lights[last.node].state = "YELLOW"

\* C10: with no request_phase_change, every light keeps its initial phase
\* index and stays GREEN with no transition, however long steps are taken.
C10_NoAutonomousChange ==
    \A n \in LightNodes :
        /\ lights[n].current_phase_index = TrafficLightInit.current_phase_index
        /\ lights[n].state = "GREEN"
        /\ ~lights[n].transitioning
        /\ lights[n].next_phase_index = None

\* C10 witness: more than green_time has been stepped through, with vehicles.
C10_Witness ==
    /\ time > LightDuration
    /\ \A n \in LightNodes : lights[n].time_in_phase > lights[n].green_time
    /\ next_vehicle_id > 0

\* The places (road, lane, index) at which vehicle id is in a lane collection.
Places(id) ==
    {p \in UNION {UNION {{<<r, l, k>> : k \in 1..Len(lanes[r][l])} :
                           l \in DOMAIN lanes[r]} : r \in Roads} :
       lanes[p[1]][p[2]][p[3]] = id}

Archived(id) == \E k \in 1..Len(completed_vehicles) : completed_vehicles[k] = id

\* C11: every active vehicle is in exactly one place of the lane collections
\* of the whole network, and that place is in lane current_lane of road
\* current_road; an archived vehicle is in no lane collection.
C11_OneLanePerVehicle ==
    \A id \in DOMAIN veh :
        /\ Active(id) =>
              /\ Cardinality(Places(id)) = 1
              /\ \A p \in Places(id) :
                     p[1] = veh[id].current_road /\ p[2] = veh[id].current_lane
        /\ Archived(id) => Places(id) = {}

\* C11 witness: one vehicle has been archived and another has moved on to the
\* second road of its route, into the last lane of a road with fewer lanes.
C11_Witness ==
    \E id, jd \in DOMAIN veh :
        /\ Archived(id)
        /\ Active(jd)
        /\ veh[jd].route_index = 1
        /\ veh[jd].current_road = <<Centre, 3>>
        /\ Len(lanes[<<Centre, 3>>][0]) = 1

\* The list L holds no id twice.
NoDuplicates(L) == \A j, k \in 1..Len(L) : L[j] = L[k] => j = k

\* C12: the number of completed vehicles is next_vehicle_id minus the number
\* of active vehicles, no vehicle is both active and archived or twice in
\* either list, and the completed count never decreases.
C12_CompletedCount ==
    /\ [](/\ Len(completed_vehicles) = next_vehicle_id - Len(vehicles)
          /\ NoDuplicates(vehicles \o completed_vehicles))
    /\ [][Len(completed_vehicles') >= Len(completed_vehicles)]_vars

\* C12 witness: of two spawned vehicles one is archived and one still active.
C12_Witness ==
    /\ next_vehicle_id = 2
    /\ Len(completed_vehicles) = 1
    /\ Len(vehicles) = 1

\* C13: a step with traffic generation enabled raises nothing, whatever
\* happens in its spawn attempts, and it advances the lights and the time.
C13_SpawnErrorsDiscarded ==
    [][(last'.op = "step" /\ gen.traffic_enabled) =>
         /\ last'.ret = "None"
         /\ time' = time + dt
         /\ lights' = UpdateTrafficLights(lights)]_vars

\* C14: spawn_vehicle(start, end, dest, lane) with no road from start to
\* end, or no route from start to dest, or a lane index out of range raises
\* and leaves the vehicles, the active list, the archive, the lane
\* collections and next_vehicle_id as they were.
C14_FailedSpawnChangesNothing ==
    [][(/\ last'.op = "spawn"
        /\ LET in == last'.index
           IN  \/ <<in[1], in[2]>> \notin Roads
               \/ in[3] \notin Nodes
               \/ PathsFrom(<<in[1]>>, in[3]) = {}
               \/ in[4] \notin DOMAIN lanes[<<in[1], in[2]>>])
       => /\ last'.ret # "None"
          /\ UNCHANGED <<veh, vehicles, completed_vehicles, lanes, next_vehicle_id>>]_vars

\* C14 witness: with a vehicle on the road, a spawn on its lane towards a
\* destination that no route reaches has raised.
C14_Witness ==
    /\ last.op = "spawn"
    /\ last.ret = "NetworkXNoPath"
    /\ Len(lanes[<<1, 5>>][0]) = 1
    /\ time > 0

\* The vehicles as the physics loop of a step from the current state leaves
\* them (traffic generation disabled), given the lights after their update.
AfterPhysics(ls) == PhysicsLoop(Generation, ls, vehicles, 1).veh

\* Vehicle id has made a road transition in the step: it has left its road
\* for the next one of its route, or it has been archived.
Transitioned(id) ==
    /\ veh'[id].route_index = veh[id].route_index + 1
    /\ id \notin {lanes'[veh[id].current_road][veh[id].current_lane][k] :
                    k \in 1..Len(lanes'[veh[id].current_road][veh[id].current_lane])}
    /\ \/ \E k \in 1..Len(completed_vehicles') : completed_vehicles'[k] = id
       \/ /\ veh'[id].current_road = veh[id].route[veh[id].route_index + 2]
          /\ \E k \in 1..Len(vehicles') : vehicles'[k] = id

\* Vehicle id ends the step at the stop line of its road, standing.
StoppedAtStopLine(id) ==
    /\ veh'[id].current_road = veh[id].current_road
    /\ veh'[id].route_index = veh[id].route_index
    /\ veh'[id].position = StopLine(veh[id].current_road)
    /\ veh'[id].speed = 0
    /\ veh'[id].acceleration = 0

\* C15 as claimed: a vehicle that the physics of the step leaves at or past
\* the stop line makes a road transition iff entry is permitted and it is at
\* or past the end of the road; in every other case it ends the step at the
\* stop line with speed 0 and acceleration 0.
C15_ClampedUnlessTransition ==
    [][last'.op = "step" =>
         \E ap \in {AfterPhysics(lights')} :
         \A k \in 1..Len(vehicles) :
             LET id == vehicles[k]
                 r  == veh[id].current_road
             IN  ap[id].position >= StopLine(r) =>
                   IF /\ CanEnterIntersection(veh, lights', id)
                      /\ ap[id].position >= GetRoadLength(r)
                   THEN Transitioned(id)
                   ELSE StoppedAtStopLine(id)]_vars

\* C15 amended: such a vehicle makes a road transition iff entry is
\* permitted and it is at or past the end of the road; when entry is
\* forbidden it ends the step at the stop line with speed 0 and acceleration
\* 0; when entry is permitted and the end of the road is not reached, the
\* step leaves it where the physics put it, with its speed and acceleration.
C15_ClampedWhenForbidden ==
    [][last'.op = "step" =>
         \E ap \in {AfterPhysics(lights')} :
         \A k \in 1..Len(vehicles) :
             LET id == vehicles[k]
                 r  == veh[id].current_road
             IN  /\ ap[id].position >= StopLine(r) =>
                       IF ~CanEnterIntersection(veh, lights', id)
                       THEN StoppedAtStopLine(id)
                       ELSE IF ap[id].position >= GetRoadLength(r)
                       THEN Transitioned(id)
                       ELSE veh'[id] = ap[id]
                 /\ ap[id].position < StopLine(r) => veh'[id] = ap[id]]_vars

\* C15 witness: a step has stopped a moving vehicle at the stop line of a
\* light that forbids entry, and another vehicle has been let through.
C15_Witness ==
    /\ last.op = "step"
    /\ \E id \in DOMAIN veh :
         /\ Active(id)
         /\ NotGreenFor(veh, lights, id)
         /\ veh[id].position = StopLine(veh[id].current_road)
         /\ veh[id].previous_speed > 0
         /\ veh[id].speed = 0
    /\ \E id \in DOMAIN veh : veh[id].route_index > 0

C17_AccelerationWithinLimits ==
    /\ [](\A id \in DOMAIN veh :
            /\ 0 - veh[id].max_deceleration <= veh[id].acceleration
            /\ veh[id].acceleration <= veh[id].max_acceleration)
    /\ [][last'.op = "set_acceleration" =>
            LET v == veh[last'.node]
                a == last'.index
                lo == IF a > 0 - v.max_deceleration THEN a ELSE 0 - v.max_deceleration
            IN  veh'[last'.node].acceleration =
                    IF lo < v.max_acceleration THEN lo ELSE v.max_acceleration]_vars

\* C17 witness: a step has stored -max_deceleration for a vehicle driving
\* far above its desired speed, where the IDM value is below that.
C17_Witness ==
    /\ last.op = "step"
    /\ \E id \in DOMAIN veh :
         /\ Active(id)
         /\ veh[id].acceleration = 0 - veh[id].max_deceleration
         /\ veh[id].speed > 2 * veh[id].desired_speed

\* C18: every active vehicle has a position >= 0 on its road.
C18_PositionNotNegative ==
    \A id \in DOMAIN veh : Active(id) => veh[id].position >= 0

\* C19: in a step with generation enabled and a spawn rate > 0 the countdown
\* is first decreased by dt; then, as long as it is <= 0, one spawn attempt
\* is made and the countdown re-armed with a positive sample, whatever the
\* outcome of the attempt; when the spawner is done the countdown is > 0.
C19_CountdownRearmed ==
    [][(/\ last'.op = "step"
        /\ gen.traffic_enabled
        /\ gen.demand_pattern.installed
        /\ GetSpawnRate(gen.demand_pattern.time_periods, time) > 0)
       => LET a  == gen'.attempts
              n  == Len(a)
              c0 == gen.time_until_next_spawn - dt
          IN  /\ gen'.decremented
              /\ n = 0 <=> c0 > 0
              /\ n = 0 => gen'.time_until_next_spawn = c0
              /\ n > 0 => a[1].before = c0 /\ gen'.time_until_next_spawn = a[n].after
              /\ \A k \in 1..n :
                     /\ a[k].before <= 0
                     /\ a[k].sample > 0
                     /\ a[k].after = a[k].before + a[k].sample
              /\ \A k \in 1..(n - 1) : a[k + 1].before = a[k].after
              /\ gen'.time_until_next_spawn > 0]_vars

\* The number of attempts of the last step that spawned a vehicle.
SpawnedCount(a) == Cardinality({k \in 1..Len(a) : a[k].outcome = "spawned"})

\* C20: every automatic spawn puts the new vehicle into a lane in which no
\* vehicle has a position below MIN_CLEARANCE, also after earlier spawns of
\* the same step; the vehicles a step adds are those of its attempts that
\* spawned, so that an aborted attempt adds none and leaves the lanes alone.
C20_SpawnClearance ==
    /\ [](\A k \in 1..Len(gen.attempts) :
            LET a == gen.attempts[k]
            IN  /\ a.outcome = "spawned" =>
                      (a.nearest = None \/ a.nearest >= MIN_CLEARANCE)
                /\ a.outcome = "aborted" =>
                      (a.nearest # None /\ a.nearest < MIN_CLEARANCE))
    /\ [][last'.op = "step" =>
            /\ next_vehicle_id' - next_vehicle_id = SpawnedCount(gen'.attempts)
            /\ DOMAIN veh' = 0..(next_vehicle_id' - 1)
            /\ SpawnedCount(gen'.attempts) = 0 =>
                  /\ last'.ret = "None" => veh' = TransitionLoop(
                         PhysicsLoop(Generation, lights', vehicles, 1),
                         lights', vehicles, 1).veh
                  /\ last'.ret # "None" => UNCHANGED <<veh, lanes, vehicles>>]_vars

\* C20 witness: in one step an attempt has spawned a vehicle behind another
\* one that had left the first MIN_CLEARANCE of the lane, and a later attempt
\* of the same step on that lane was aborted because of the new vehicle.
C20_Witness ==
    /\ last.op = "step"
    /\ \E j, k \in 1..Len(gen.attempts) :
         /\ j < k
         /\ gen.attempts[j].outcome = "spawned"
         /\ gen.attempts[j].nearest >= MIN_CLEARANCE
         /\ gen.attempts[k].outcome = "aborted"
         /\ gen.attempts[k].road = gen.attempts[j].road
         /\ gen.attempts[k].lane = gen.attempts[j].lane
         /\ gen.attempts[k].nearest = 0

\* The ids of the list L.
Ids(L) == {L[k] : k \in 1..Len(L)}

\* The vehicles for which the end-of-road loop of a step calls
\* handle_road_transition: ap are the vehicles after the physics of the step
\* and ls the lights after their update.
Crossing(ap, ls) ==
    {id \in Ids(vehicles) :
        /\ ap[id].position >= GetRoadLength(veh[id].current_road)
        /\ CanEnterIntersection(veh, ls, id)}

\* Those of them that have roads remaining in their route.
MovingOn(ap, ls) ==
    {id \in Crossing(ap, ls) : veh[id].route_index + 1 < Len(veh[id].route)}

\* The road and the lane a vehicle with roads remaining is to move on to.
NextRoad(id) == veh[id].route[veh[id].route_index + 2]

NextLane(id) == Min(veh[id].current_lane, NumLanes(NextRoad(id)) - 1)

\* C21: a vehicle with roads remaining that a step takes through a road
\* transition is removed from its old lane collection, its route cursor
\* advances by one, its road is the route element at the new cursor, its
\* position is max(0, old position - old road length), its lane is min(old
\* lane, lane count of the new road - 1) and it is appended to that lane's
\* collection; one call of handle_road_transition changes the road, lane and
\* position of no other vehicle, and a vehicle that makes no transition in
\* the step keeps its road and lane.
C21_TransitionContract ==
    [][last'.op = "step" =>
         \E w \in {PhysicsLoop(Generation, lights', vehicles, 1)} :
         \E cr \in {Crossing(w.veh, lights')} :
         \E mv \in {MovingOn(w.veh, lights')} :
             /\ \A id \in mv :
                    LET old == veh[id].current_road
                    IN  /\ id \notin Ids(lanes'[old][veh[id].current_lane])
                        /\ veh'[id].route_index = veh[id].route_index + 1
                        /\ veh'[id].current_road = veh[id].route[veh'[id].route_index + 1]
                        /\ veh'[id].position =
                               Max(0, w.veh[id].position - GetRoadLength(old))
                        /\ veh'[id].current_lane = NextLane(id)
             /\ \A r \in Roads : \A l \in DOMAIN lanes[r] :
                    lanes'[r][l] =
                        SelectSeq(w.lanes[r][l], LAMBDA x : x \notin cr)
                        \o SelectSeq(vehicles, LAMBDA x : /\ x \in mv
                                                         /\ NextRoad(x) = r
                                                         /\ NextLane(x) = l)
             /\ \A id \in mv :
                    LET h == HandleRoadTransition(w, id)
                    IN  \A x \in DOMAIN veh : x # id =>
                            /\ h.veh[x].current_road = w.veh[x].current_road
                            /\ h.veh[x].current_lane = w.veh[x].current_lane
                            /\ h.veh[x].position = w.veh[x].position
             /\ \A id \in Ids(vehicles) \ cr :
                    /\ veh'[id].current_road = veh[id].current_road
                    /\ veh'[id].current_lane = veh[id].current_lane
                    /\ veh'[id].route_index = veh[id].route_index]_vars

\* C21 witness: a step has just taken a vehicle from lane 1 over the end of
\* its road with a positive overshoot, into the single lane of the road out
\* of the centre, behind a vehicle that the same step moved there before it.
C21_Witness ==
    /\ last.op = "step"
    /\ Len(lanes[<<Centre, 3>>][0]) = 2
    /\ \E k \in 1..Len(phys.ids) :
          LET id == phys.ids[k]
          IN  /\ phys.lane[k] = 1
              /\ lanes[<<Centre, 3>>][0][2] = id
              /\ veh[id].current_lane = 0
              /\ veh[id].route_index = 1
              /\ veh[id].position > 0
              /\ veh[id].position < (veh[id].speed * dt) \div 10

\* C22: a step archives a vehicle exactly when it takes it through a road
\* transition that advances the route cursor beyond the last element of the
\* route, and then the vehicle was on the last road of its route and had
\* passed its end; no other call archives a vehicle; an archived vehicle is
\* not in the active list and in no lane collection, stays archived and is
\* not updated any more.
C22_ArchivedAtEndOfRoute ==
    /\ [](\A id \in DOMAIN veh :
            Archived(id) => (~Active(id) /\ Places(id) = {}))
    /\ [][/\ \A id \in DOMAIN veh :
               Archived(id) => (veh'[id] = veh[id] /\ Archived(id)')
          /\ last'.op # "step" => completed_vehicles' = completed_vehicles
          /\ last'.op = "step" =>
                \E ap \in {AfterPhysics(lights')} :
                \E cr \in {Crossing(ap, lights')} :
                \A id \in Ids(vehicles) :
                    LET v == veh[id]
                    IN  /\ Archived(id)' <=>
                              (id \in cr /\ v.route_index + 1 >= Len(v.route))
                        /\ Archived(id)' =>
                              /\ veh'[id].route_index = v.route_index + 1
                              /\ Len(v.route) > 0
                              /\ v.current_road = v.route[Len(v.route)]
                              /\ ap[id].position >= GetRoadLength(v.route[Len(v.route)])]_vars

\* Period k of the pattern contains the time t.
Contains(periods, k, t) ==
    /\ periods[k][1] <= t
    /\ periods[k][2] = Infinity \/ t < periods[k][2]

\* C23: get_spawn_rate(t) returns the rate of the first period, in the
\* order of insertion, with start <= t < end, and 0 when no period contains
\* t; for create_constant_pattern(r) it returns r for every t >= 0, and for
\* create_rush_hour_pattern() 0.2 at 0 s, 1.5 at 450 s, 0.5 at 750 s, 1.5 at
\* 1000 s and 0.2 at 5000 s.
C23_FirstPeriodWins ==
    last.op = "get_spawn_rate" =>
        LET ps == gen.demand_pattern.time_periods
            t  == last.index
        IN  /\ \/ /\ last.ret = 0
                  /\ \A k \in 1..Len(ps) : ~Contains(ps, k, t)
               \/ \E k \in 1..Len(ps) :
                     /\ Contains(ps, k, t)
                     /\ \A j \in 1..(k - 1) : ~Contains(ps, j, t)
                     /\ last.ret = ps[k][3]
            /\ \A r \in RateInputs :
                   (ps = CreateConstantPattern(r) /\ t >= 0) => last.ret = r
            /\ ps = CreateRushHourPattern =>
                   /\ t = 0 => last.ret = 200
                   /\ t = 4500 => last.ret = 1500
                   /\ t = 7500 => last.ret = 500
                   /\ t = 10000 => last.ret = 1500
                   /\ t = 50000 => last.ret = 200

\* C23 witness: a time that is the end of the first period and lies in a
\* later period with another rate has been given the rate of the later one.
C23_Witness ==
    /\ last.op = "get_spawn_rate"
    /\ LET ps == gen.demand_pattern.time_periods
       IN  /\ Len(ps) >= 2
           /\ last.index = ps[1][2]
           /\ \E k \in 2..Len(ps) : Contains(ps, k, last.index) /\ last.ret = ps[k][3]
           /\ last.ret # ps[1][3]

\* C24: add_node with an id that exists raises and leaves the node, with its
\* position and its light, and all roads as they were; add_road between two
\* nodes at the same position, or from a node to itself, raises and adds no
\* edge; add_two_way_road between two such nodes adds neither direction.
C24_RejectedConstruction ==
    [][/\ (last'.op = "add_node" /\ last'.node \in DOMAIN graph.nodes) =>
            /\ last'.ret = "ValueError"
            /\ graph' = graph
            /\ lanes' = lanes
       /\ (/\ last'.op \in {"add_road", "add_two_way_road"}
           /\ last'.node \in DOMAIN graph.nodes
           /\ last'.index \in DOMAIN graph.nodes
           /\ graph.nodes[last'.node].pos = graph.nodes[last'.index].pos) =>
            /\ last'.ret = "ValueError"
            /\ DOMAIN graph'.edges = DOMAIN graph.edges
            /\ graph' = graph
            /\ lanes' = lanes]_vars

\* C24 witness: with roads in the network, add_two_way_road between two
\* different nodes at the same position has raised.
C24_Witness ==
    /\ last.op = "add_two_way_road"
    /\ last.ret = "ValueError"
    /\ last.node # last.index
    /\ graph.nodes[last.node].pos = graph.nodes[last.index].pos
    /\ DOMAIN graph.edges # {}

\* The vehicles in the lane of vehicle id, on its road, that are ahead of it.
Ahead(id) ==
    {x \in Ids(vehicles) : /\ veh[x].current_road = veh[id].current_road
                           /\ veh[x].current_lane = veh[id].current_lane
                           /\ veh[x].position > veh[id].position}

\* C25: get_leading_vehicle returns, of the vehicles in the same lane of the
\* same road, one with the smallest position strictly greater than the
\* caller's, and None when there is none; a vehicle at the caller's position
\* is never returned; the lookup leaves the members of every lane, and every
\* vehicle, as they were.
C25_LeaderIsNearestAhead ==
    [][last'.op = "get_leading_vehicle" =>
         LET id  == last'.node
             ret == last'.index
         IN  /\ Ahead(id) = {} <=> ret = None
             /\ Ahead(id) # {} =>
                   /\ ret \in Ahead(id)
                   /\ \A x \in Ahead(id) : veh[ret].position <= veh[x].position
                   /\ veh[ret].position # veh[id].position
             /\ veh' = veh
             /\ \A r \in Roads : \A l \in DOMAIN lanes[r] :
                    /\ Ids(lanes'[r][l]) = Ids(lanes[r][l])
                    /\ Len(lanes'[r][l]) = Len(lanes[r][l])]_vars

\* C25 witness: a lookup has returned a leader while the lane holds a vehicle
\* farther ahead and another vehicle at the caller's own position.
C25_Witness ==
    /\ last.op = "get_leading_vehicle"
    /\ last.index # None
    /\ \E x \in Ahead(last.node) : veh[x].position > veh[last.index].position
    /\ \E x \in Ids(vehicles) :
          /\ x # last.node
          /\ veh[x].current_lane = veh[last.node].current_lane
          /\ veh[x].position = veh[last.node].position

\* The vehicles ahead of vehicle id that no other vehicle ahead is nearer than.
NearestAhead(id) ==
    {x \in Ahead(id) : \A y \in Ahead(id) : veh[x].position <= veh[y].position}

\* Vehicle id has a virtual leader: it is within the detection distance of
\* the end of its road, the end node has a light and the light does not
\* report GREEN for the road.
HasVirtualLeader(id) ==
    LET r == veh[id].current_road
    IN  /\ GetRoadLength(r) - veh[id].position <= INTERSECTION_DETECTION_DISTANCE
        /\ r[2] \in LightNodes
        /\ GetStateForRoad(lights[r[2]], r[1], r[2]) # "GREEN"

\* The gap to the virtual leader: the distance to the stop line, not negative.
VirtualGap(id) ==
    Max(0, GetRoadLength(veh[id].current_road) - veh[id].position - STOP_LINE_OFFSET)

PhysicalGap(id, x) == veh[x].position - veh[id].position - veh[id].length

C27_NoOverlap ==
    \A a \in Ids(vehicles), b \in Ids(vehicles) :
        (/\ a # b
         /\ veh[a].current_road = veh[b].current_road
         /\ veh[a].current_lane = veh[b].current_lane
         /\ veh[a].position <= veh[b].position)
        => /\ veh[a].position # veh[b].position
           /\ veh[b].position - veh[a].position - veh[a].length >= 0

\* The position of vehicle id in the order of the physics loop of the step
\* that phys records.
OrderIndex(ph, id) == CHOOSE k \in 1..Len(ph.ids) : ph.ids[k] = id

\* No other active vehicle is in the lane of vehicle id.
AloneInLane(id) ==
    \A x \in Ids(vehicles) \ {id} :
        \/ veh[x].current_road # veh[id].current_road
        \/ veh[x].current_lane # veh[id].current_lane

\* The acceleration set_acceleration stores for a vehicle v that has no
\* leader, under the lights ls.
LoneAcceleration(v, ls) ==
    LET r    == v.current_road
        near == /\ GetRoadLength(r) - v.position <= INTERSECTION_DETECTION_DISTANCE
                /\ r[2] \in LightNodes
                /\ GetStateForRoad(ls[r[2]], r[1], r[2]) # "GREEN"
        a    == IF near
                THEN IDM(v, Max(0, GetRoadLength(r) - v.position - STOP_LINE_OFFSET), v.speed)
                ELSE (v.max_acceleration * FreeFlowTerm(v)) \div 1000
    IN  Max(0 - v.max_deceleration, Min(a, v.max_acceleration))

\* C28: every step runs the spawner, the light update, the acceleration and
\* motion of the vehicles, the handling of the stop line and of the end of
\* the road, and the time increment once each and in this order: the spawner
\* decreases its countdown exactly when the rate at the time before the step
\* is positive; every light is updated by dt once; every vehicle, the ones
\* spawned in the step included, is updated by dt once; the acceleration of
\* a vehicle alone in its lane is the one for the lights after their update;
\* a vehicle whose motion has taken it to the end of its road is moved on in
\* the same step; and the time grows by dt, as the update time of the light.
C28_StepOrder ==
    /\ [](obs[Centre].total = time)
    /\ [][last'.op = "step" =>
            /\ last'.ret = "None"
            /\ gen'.decremented =
                  (GetSpawnRate(gen.demand_pattern.time_periods, time) > 0)
            /\ lights' = [n \in LightNodes |-> Update(lights[n], dt)]
            /\ Ids(phys'.ids) = Ids(vehicles) \cup (next_vehicle_id..(next_vehicle_id' - 1))
            /\ \A id \in Ids(vehicles) : veh'[id].time_alive = veh[id].time_alive + dt
            /\ \A id \in next_vehicle_id..(next_vehicle_id' - 1) :
                  /\ veh'[id].time_alive = dt
                  /\ veh'[id].previous_speed = veh'[id].speed
                  /\ veh'[id].position = (veh'[id].speed * dt) \div 10
            /\ \A id \in Ids(vehicles) :
                  AloneInLane(id) =>
                      phys'.acc[OrderIndex(phys', id)] = LoneAcceleration(veh[id], lights')
            /\ \A id \in Ids(vehicles') :
                  \/ veh'[id].position < GetRoadLength(veh'[id].current_road)
                  \/ veh'[id].current_road # veh[id].current_road
            /\ time' = time + dt]_vars

\* C28 witness: the light has turned green for road (2, 5) in the update of
\* the last step, and a vehicle that stood before the light on that road,
\* within the detection distance, has been given its full acceleration and
\* been moved by the same step.
C28_Witness ==
    /\ last.op = "step"
    /\ lights[Centre].state = "GREEN"
    /\ lights[Centre].time_in_phase = 0
    /\ obs[Centre].chg_op = "step"
    /\ \E k \in 1..Len(phys.ids) :
          LET v == veh[phys.ids[k]]
          IN  /\ v.current_road = <<2, Centre>>
              /\ phys.acc[k] = v.max_acceleration
              /\ v.speed = (phys.acc[k] * dt) \div 10
              /\ v.time_alive > dt
              /\ GetRoadLength(v.current_road) - (v.position - (v.speed * dt) \div 10)
                    <= INTERSECTION_DETECTION_DISTANCE

\* C29: Vehicle.update uses the one stop threshold STOP_THRESHOLD for both
\* stop metrics: an update of d adds d to total_wait_time exactly when the
\* speed after the update is below the threshold, and adds one to total_stops
\* exactly when the speed recorded by the previous update was above the
\* threshold and the new speed is at or below it; while the speed stays at or
\* below the threshold no further stop is counted.
C29_OneStopThreshold ==
    [][last'.op = "vehicle_update" =>
          \A id \in {last'.node} :
             LET v == veh[id]
                 w == veh'[id]
             IN  /\ w.total_wait_time =
                       v.total_wait_time
                         + (IF w.speed < STOP_THRESHOLD THEN last'.d ELSE 0)
                 /\ w.total_stops =
                       v.total_stops
                         + (IF v.previous_speed > STOP_THRESHOLD
                               /\ w.speed <= STOP_THRESHOLD THEN 1 ELSE 0)
                 /\ (v.previous_speed <= STOP_THRESHOLD
                        => w.total_stops = v.total_stops)]_vars

\* The route is a chain of existing directed roads, each starting where the
\* one before it ends.
RouteIsChain(route) ==
    /\ \A k \in 1..Len(route) : route[k] \in Roads
    /\ \A k \in 1..(Len(route) - 1) : route[k][2] = route[k + 1][1]

\* C30: at every tick boundary and right after every spawn, every active
\* vehicle's current road is the element of its route at the route cursor and
\* its route is a contiguous chain of existing directed roads; right after a
\* spawn the route of the new vehicle ends at the destination of the call,
\* whatever the spawn road and also when the start node is the destination.
C30_CurrentRoadOnRoute ==
    /\ [](\A id \in Ids(vehicles) :
            LET v == veh[id]
            IN  /\ v.route_index + 1 \in 1..Len(v.route)
                /\ v.current_road = v.route[v.route_index + 1]
                /\ RouteIsChain(v.route))
    /\ [][(last'.op = "spawn" /\ next_vehicle_id' # next_vehicle_id) =>
             LET v == veh'[next_vehicle_id]
             IN  /\ Len(v.route) > 0
                 /\ v.route[Len(v.route)][2] = last'.index[3]]_vars

\* C31: in every reachable state of a traffic light, transitioning is true
\* exactly when the raw state is YELLOW and exactly when a pending target
\* index is recorded; the raw state is GREEN or YELLOW, never RED;
\* current_phase_index and a recorded pending target are indices of the phase
\* list; and time_in_phase is not negative.
C31_LightBookkeeping ==
    \A n \in LightNodes :
        LET tl == lights[n]
        IN  /\ tl.transitioning <=> tl.state = "YELLOW"
            /\ tl.state = "YELLOW" <=> tl.next_phase_index # None
            /\ tl.state \in {"GREEN", "YELLOW"}
            /\ tl.current_phase_index \in 0..(NumPhases - 1)
            /\ tl.next_phase_index # None =>
                   tl.next_phase_index \in 0..(NumPhases - 1)
            /\ tl.time_in_phase >= 0

\* C31 witness: the light has committed a transition and is GREEN again in
\* the phase that was pending, after a later request has been refused.
C31_Witness ==
    /\ obs[Centre].commits >= 1
    /\ lights[Centre].state = "GREEN"
    /\ ~lights[Centre].transitioning
    /\ lights[Centre].next_phase_index = None
    /\ lights[Centre].current_phase_index = 2
    /\ last.op = "request"
    /\ last.ret = "False"

\* The spawner of a step at time t does not run: generation is disabled, no
\* demand pattern is installed, or the demand rate at t is not positive.
SpawnerIdle(g, t) ==
    \/ ~g.traffic_enabled
    \/ ~g.demand_pattern.installed
    \/ GetSpawnRate(g.demand_pattern.time_periods, t) <= 0

\* C32: while traffic generation is disabled, or no demand pattern is
\* installed, or the demand rate at the current time is not positive, a step
\* creates no vehicle (next_vehicle_id and the vehicles ever created are
\* unchanged) and leaves the spawn countdown unchanged;
\* enable_traffic_generation sets the countdown to 0, and the first step
\* after enabling with a positive rate makes at least one spawn attempt.
C32_IdleSpawner ==
    [][/\ (last'.op = "step" /\ SpawnerIdle(gen, time)) =>
             /\ next_vehicle_id' = next_vehicle_id
             /\ DOMAIN veh' = DOMAIN veh
             /\ Ids(vehicles') \cup Ids(completed_vehicles')
                   = Ids(vehicles) \cup Ids(completed_vehicles)
             /\ gen'.time_until_next_spawn = gen.time_until_next_spawn
             /\ gen'.attempts = <<>>
       /\ last'.op = "enable" =>
             /\ gen'.traffic_enabled
             /\ gen'.time_until_next_spawn = 0
       /\ (last.op = "enable" /\ last'.op = "step" /\ ~SpawnerIdle(gen, time)) =>
             Len(gen'.attempts) >= 1]_vars

\* C32 witness: after a vehicle had been spawned, generation was disabled and
\* enabled again with a pattern whose rate is not positive; the step after
\* it has left the countdown at the 0 of enable_traffic_generation and has
\* made no spawn attempt.
C32_Witness ==
    /\ last.op = "step"
    /\ last.ret = "None"
    /\ gen.traffic_enabled
    /\ gen.demand_pattern.installed
    /\ GetSpawnRate(gen.demand_pattern.time_periods, time - dt) <= 0
    /\ gen.time_until_next_spawn = 0
    /\ gen.attempts = <<>>
    /\ next_vehicle_id = 1
    /\ veh[0].time_alive = 2 * dt

\* C33: with traffic generation disabled, every active vehicle is archived
\* after finitely many steps unless the light at the end of its road is, at
\* some later time, not green for that road; in particular a vehicle that
\* stands at a stop line leaves its road once the light has turned GREEN for
\* it and stays GREEN.
C33_Progress ==
    \A id \in 0..(MaxVehicles - 1) :
        [](Active(id) =>
              <>(\/ Archived(id)
                 \/ Active(id) /\ NotGreenFor(veh, lights, id)))

\* C33 witness: a vehicle that stood before the red light of road (2, 5) has
\* been archived after the light turned GREEN for that road.
C33_Witness ==
    /\ lights[Centre].state = "GREEN"
    /\ lights[Centre].current_phase_index = 1
    /\ \E id \in DOMAIN veh :
          /\ Archived(id)
          /\ veh[id].route = << <<2, Centre>>, <<Centre, 4>> >>
          /\ veh[id].total_stops >= 1
          /\ veh[id].total_wait_time >= YELLOW_TIME

\* C34: while a vehicle stays on the same road its position does not decrease
\* from one tick boundary to the next, whatever steps and phase-change
\* requests are made, also when the light turns YELLOW while the vehicle is
\* between the stop line and the end of its road.
C34_PositionMonotone ==
    [][\A id \in Ids(vehicles) \cap Ids(vehicles') :
          veh'[id].current_road = veh[id].current_road =>
              veh'[id].position >= veh[id].position]_vars

====
